---------------------------- MODULE Spec2Model ----------------------------
(***************************************************************************)
(* Archon login server: the CHARACTER role.                                *)
(*                                                                         *)
(* The model follows src/src/login_server/login_server/character.go (the   *)
(* acceptor, the per-session receive loop and the packet dispatcher) and   *)
(* src/util/util.go (byte helpers, the packet send path, NewClient).       *)
(* Bytes are numbers 0..255, byte slices are sequences, indices are        *)
(* 1-based (Go index i is TLA+ index i+1).                                 *)
(***************************************************************************)
EXTENDS Integers, Sequences, FiniteSets, TLC

(***************************************************************************)
(* Bounds of the model.                                                    *)
(***************************************************************************)
\* Connections the acceptor takes before the model stops accepting.
MaxConns == 2
\* Steps the peers take, over all connections: connecting, sending a frame,
\* closing, breaking the connection.
MaxPeerSteps == 4
\* Bytes of one network segment: a read returns whole segments, or all
\* the bytes that are in flight.
SegBytes == 4
\* Segments a short read returns at most; a read may also return all the
\* bytes in flight, or as many as the buffer has room for.
MaxReadSegs == 12
\* Longest serialized record drawn for the send path (SpecSend).
MaxLen == 10
\* Records sent in a row on the send path (SpecSend).
MaxSends == 2

(***************************************************************************)
(* Program constants.                                                      *)
(***************************************************************************)
\* make([]byte, 1024) in NewClient.
RecvBufLen == 1024
\* pkt.Header.Size = 0xC8 in SendWelcome.
WelcomeSize == 200
\* Size of the BB header (size u16, type u16, flags u32); not set under src/.
BBHeaderSize == 8
\* Size of the PC header (size u16, type u16); not set under src/.
PCHeaderSize == 4
\* Width of uint16 arithmetic (length, packetSize, gcDataSize).
UInt16 == 65536

\* Packet type codes of the CHARACTER role and of its replies. The constants
\* are declared outside src/; the values are those of the original client.
PacketTypes ==
    [ Login |-> 147, Disconnect |-> 5, OptionsRequest |-> 224,
      CharPreviewReq |-> 227, Checksum |-> 488, GuildcardReq |-> 1000,
      GuildcardChunkReq |-> 988, ParameterHeaderReq |-> 1259,
      ParameterChunkReq |-> 1003, SetFlag |-> 236, CharPreview |-> 229,
      Welcome |-> 3, Security |-> 230, Options |-> 226, CharAck |-> 228,
      ChecksumAck |-> 744, GuildcardHeader |-> 476, GuildcardChunk |-> 732,
      ParameterHeader |-> 491, ParameterChunk |-> 747 ]

\* The types processCharacterPacket has a case for.
HandledTypes ==
    { PacketTypes.Login, PacketTypes.Disconnect, PacketTypes.OptionsRequest,
      PacketTypes.CharPreviewReq, PacketTypes.Checksum, PacketTypes.GuildcardReq,
      PacketTypes.GuildcardChunkReq, PacketTypes.ParameterHeaderReq,
      PacketTypes.ParameterChunkReq, PacketTypes.SetFlag, PacketTypes.CharPreview }

(***************************************************************************)
(* Byte helpers.                                                           *)
(***************************************************************************)
Zeros(n) == [i \in 1..n |-> 0]

LE16(v) == << v % 256, (v \div 256) % 256 >>

LE32(v) == << v % 256, (v \div 256) % 256, (v \div 65536) % 256,
              (v \div 16777216) % 256 >>

Min(a, b) == IF a < b THEN a ELSE b

\* A fixed-size byte array holding bytes, zero-filled (copy into a zero array).
PadTo(bytes, n) ==
    IF Len(bytes) >= n THEN SubSeq(bytes, 1, n) ELSE bytes \o Zeros(n - Len(bytes))

\* Byte i (1-based) of a buffer whose trailing zero bytes are not stored.
ByteAt(buf, i) == IF i <= Len(buf) THEN buf[i] ELSE 0

\* buf[from-1 : from-1+n] of such a buffer, as n explicit bytes.
Slice(buf, from, n) == [i \in 1..n |-> ByteAt(buf, from + i - 1)]

\* The stored form of a buffer: its trailing zero bytes dropped.
TrimZeros(buf) ==
    LET n == Len(buf)
    IN  IF \A i \in 1..n : buf[i] = 0 THEN << >>
        ELSE SubSeq(buf, 1,
                    n - (CHOOSE k \in 0..(n - 1) :
                            /\ buf[n - k] # 0
                            /\ \A j \in (n - k + 1)..n : buf[j] = 0))

\* binary.Read of a little-endian u16 at 1-based offset off.
ReadU16(buf, off) == ByteAt(buf, off) + 256 * ByteAt(buf, off + 1)

\* binary.Read of a u32 at 1-based offset off, kept as its four bytes
\* (little-endian), so that every 32-bit value is representable.
ReadU32(buf, off) == Slice(buf, off, 4)

\* uint16(v) of a u32 held as four bytes.
Low16(v) == v[1] + 256 * v[2]

\* int(v) of a u32 held as four bytes when it is below 65536, else -1
\* (used only to index maps that hold fewer than 65536 keys).
SmallInt(v) == IF v[3] = 0 /\ v[4] = 0 THEN Low16(v) ELSE -1

\* GetPacketSize: the u16 in the first two bytes.
GetPacketSize(data) == ReadU16(data, 1)

\* A serialized BBHeader{Size, Type, Flags}.
BBHeader(size, type, flags) == LE16(size) \o LE16(type) \o LE32(flags)

\* ZeroSlice that clears the header's bytes only.
ZeroSliceHeader(arr, length) ==
    [i \in 1..Len(arr) |-> IF i <= Min(length, BBHeaderSize) THEN 0 ELSE arr[i]]

\* ZeroSlice(arr, length): the first min(length, len(arr)) bytes set to 0.
ZeroSlice(arr, length) ==
    [i \in 1..Len(arr) |-> IF i <= length THEN 0 ELSE arr[i]]

(***************************************************************************)
(* The stream cipher (libarchon/encryption, outside src/): per direction,  *)
(* keyed, in place, and every byte processed advances the state.           *)
(***************************************************************************)
NewCrypt(seed) == [key |-> seed, pos |-> 0]

KeyStream(key, p) == (17 * key + 29 * p + 1) % 256

\* The vector sent in the welcome packet for a key (48 bytes).
Vector(crypt) == [i \in 1..48 |-> (crypt.key + i) % 256]

\* The first length bytes of data encrypted from cipher position pos on.
EncryptBytes(key, pos, data, length) ==
    [i \in 1..Len(data) |->
        IF i <= length THEN (data[i] + KeyStream(key, pos + i - 1)) % 256
        ELSE data[i]]

DecryptBytes(key, pos, data, length) ==
    [i \in 1..Len(data) |->
        IF i <= length THEN (data[i] + 256 - KeyStream(key, pos + i - 1)) % 256
        ELSE data[i]]

Advance(crypt, length) == [crypt EXCEPT !.pos = @ + length]


(***************************************************************************)
(* The send path (util.go: fixLength, sendEncrypted, sendPacket).          *)
(*                                                                         *)
(* A client is a record: the fields of the session struct, the state of    *)
(* its TCP connection (what the peer did, the bytes in flight, the writes  *)
(* handed to the socket, and sndBlock: the socket takes no more bytes, so  *)
(* that a write blocks) and observation fields no code reads (txlog,       *)
(* rxTotal, sent, dispatched, endCause, and env: what storage answered to  *)
(* the handler of the last frame dispatched).  Operators that stand for Go *)
(* functions on a client return the updated record; ret holds the Go       *)
(* return value.  txlog keeps, for each call of sendEncrypted, the record  *)
(* and the frame fixLength made of it as their length and their bytes      *)
(* without the trailing zeros.                                             *)
(***************************************************************************)
RECURSIVE padLoop(_, _, _)
\* for length%hdrSize != 0 { length++; data = append(data, 0) }, length a uint16.
padLoop(data, length, hdrSize) ==
    IF length % hdrSize # 0
    THEN padLoop(Append(data, 0), (length + 1) % UInt16, hdrSize)
    ELSE [data |-> data, length |-> length]

\* fixLength with the two stamped bytes written one position too far.
fixLengthShifted(data, length, hdrSize) ==
    LET r == padLoop(data, length, hdrSize)
    IN  [data |-> [r.data EXCEPT ![2] = r.length % 256,
                                 ![3] = (r.length \div 256) % 256],
         length |-> r.length]

\* fixLength: pad to a multiple of hdrSize, stamp the length into bytes 0, 1.
fixLength(data, length, hdrSize) ==
    LET r == padLoop(data, length, hdrSize)
    IN  [data |-> [r.data EXCEPT ![1] = r.length % 256,
                                 ![2] = (r.length \div 256) % 256],
         length |-> r.length]

\* sendPacket that puts the write ahead of the writes still in the socket's
\* queue instead of behind them.
sendPacketOutOfOrder(c, pkt, length) ==
    LET out == SubSeq(pkt, 1, length)
    IN  IF c.sndErr
        THEN [c EXCEPT !.wire = << [data |-> out, ok |-> FALSE] >> \o @,
                       !.ret = -1]
        ELSE [c EXCEPT !.wire = << [data |-> out, ok |-> TRUE] >> \o @,
                       !.ret = 0]

\* sendPacket: c.Send(pkt[:length]); -1 when the socket write fails.
sendPacket(c, pkt, length) ==
    LET out == SubSeq(pkt, 1, length)
    IN  IF c.sndErr
        THEN [c EXCEPT !.wire = Append(@, [data |-> out, ok |-> FALSE]),
                       !.ret = -1]
        ELSE [c EXCEPT !.wire = Append(@, [data |-> out, ok |-> TRUE]),
                       !.ret = 0]

\* The entry of txlog for a call of sendEncrypted(data, length) whose frame
\* is frame and whose call of Encrypt has the length encLen.
LogEntry(data, length, frame, encLen) ==
    [rec |-> TrimZeros(data), recLen |-> Len(data), len |-> length,
     frame |-> TrimZeros(frame), frameLen |-> Len(frame), encLen |-> encLen]

\* sendEncrypted that gives Encrypt the length of the record, not the length
\* of the padded frame.
sendEncryptedUnpadded(c, data, length) ==
    LET f   == fixLength(data, length, c.hdrSize)
        enc == EncryptBytes(c.serverCrypt.key, c.serverCrypt.pos, f.data, length)
        c1  == [c EXCEPT !.serverCrypt = Advance(@, length),
                         !.txlog = Append(@, LogEntry(data, length, f.data,
                                                      length))]
    IN  sendPacket(c1, enc, f.length)

\* sendEncrypted: fixLength, Encrypt(data, length), sendPacket(data, length).
sendEncrypted(c, data, length) ==
    LET f   == fixLength(data, length, c.hdrSize)
        enc == EncryptBytes(c.serverCrypt.key, c.serverCrypt.pos, f.data, f.length)
        c1  == [c EXCEPT !.serverCrypt = Advance(@, f.length),
                         !.txlog = Append(@, LogEntry(data, length, f.data,
                                                      f.length))]
    IN  sendPacket(c1, enc, f.length)

(***************************************************************************)
(* Packet senders (util.go).  Each serializes its record field by field    *)
(* (BytesFromStruct) and passes uint16(size) as the length.                *)
(***************************************************************************)
\* loginCopyright as bytes.
loginCopyrightBytes ==
    << 80,104,97,110,116,97,115,121,32,83,116,97,114,32,79,110,108,105,110,
       101,32,66,108,117,101,32,66,117,114,115,116,32,71,97,109,101,32,83,
       101,114,118,101,114,46,32,67,111,112,121,114,105,103,104,116,32,49,
       57,57,57,45,50,48,48,52,32,83,79,78,73,67,84,69,65,77,46 >>

\* The serialized WelcomePkt: header, copyright, client vector, server vector.
WelcomeBytes(c) ==
    BBHeader(WelcomeSize, PacketTypes.Welcome, 0)
    \o PadTo(loginCopyrightBytes, 96)
    \o Vector(c.clientCrypt) \o Vector(c.serverCrypt)

\* SendWelcome through the cipher, as every later packet is sent.
SendWelcomeEncrypted(c) ==
    LET data == WelcomeBytes(c) IN sendEncrypted(c, data, Len(data) % UInt16)

\* SendWelcome: the welcome packet goes out through sendPacket, in the clear.
SendWelcome(c) ==
    LET data == WelcomeBytes(c) IN sendPacket(c, data, Len(data) % UInt16)

\* SendSecurity; client.config is declared outside src/ and takes no bytes here.
SendSecurity(c, errorCode, guildcard, teamId) ==
    LET data == BBHeader(0, PacketTypes.Security, 0) \o LE32(errorCode)
                \o LE32(65536) \o LE32(guildcard) \o LE32(teamId) \o LE32(258)
    IN  sendEncrypted(c, data, Len(data) % UInt16)

\* SendOptions: panics unless keyConfig holds 420 bytes.
SendOptions(c, keyConfig) ==
    IF Len(keyConfig) # 420 THEN [c EXCEPT !.panicked = TRUE]
    ELSE LET data == BBHeader(0, PacketTypes.Options, 0) \o LE32(c.guildcard)
                     \o SubSeq(keyConfig, 1, 364) \o SubSeq(keyConfig, 365, 420)
                     \o << 255, 255, 255, 255 >> \o << 255, 255, 255, 255 >>
         IN  sendEncrypted(c, data, Len(data) % UInt16)

\* SendCharacterAck(slot, flag); flag 2 says the slot holds no character.
SendCharacterAck(c, slotNum, flag) ==
    LET data == BBHeader(0, PacketTypes.CharAck, 0) \o LE32(slotNum) \o LE32(flag)
    IN  sendEncrypted(c, data, Len(data) % UInt16)

\* SendChecksumAck(ack), ack below 2^31.
SendChecksumAck(c, ack) ==
    LET data == BBHeader(0, PacketTypes.ChecksumAck, 0) \o LE32(ack)
    IN  sendEncrypted(c, data, Len(data) % UInt16)

\* SendGuildcardHeader(checksum, dataLen).
SendGuildcardHeader(c, checksum, dataLen) ==
    LET data == BBHeader(0, PacketTypes.GuildcardHeader, 0) \o LE32(1)
                \o LE16(dataLen) \o LE32(checksum)
    IN  sendEncrypted(c, data, Len(data) % UInt16)

\* SendParameterHeader(numEntries, entries).
SendParameterHeader(c, numEntries, entries) ==
    LET data == BBHeader(0, PacketTypes.ParameterHeader, numEntries) \o entries
    IN  sendEncrypted(c, data, Len(data) % UInt16)

\* SendParameterChunk that leaves the Chunk field zero.
SendParameterChunkNoIndex(c, chunkData, chunk) ==
    LET data == BBHeader(0, PacketTypes.ParameterChunk, 0) \o LE32(0)
                \o chunkData
    IN  sendEncrypted(c, data, Len(data) % UInt16)

\* SendParameterChunk(chunkData, chunk).
SendParameterChunk(c, chunkData, chunk) ==
    LET data == BBHeader(0, PacketTypes.ParameterChunk, 0) \o chunk
                \o chunkData
    IN  sendEncrypted(c, data, Len(data) % UInt16)

(***************************************************************************)
(* Storage and the parameter cache.                                        *)
(***************************************************************************)
\* The chunk size of guildcard and parameter payloads (0x6800); the constant
\* is declared outside src/.
MaxChunkSize == 26624

\* The default key configuration (420 bytes); its contents are declared
\* outside src/.
BaseKeyConfig == [i \in 1..420 |-> i % 256]

\* crc32.ChecksumIEEE of the standard library, as a stand-in that depends on
\* the length and on the first and last bytes.
ChecksumIEEE(data) ==
    IF data = << >> THEN 0
    ELSE (Len(data) * 31 + ByteAt(data, 1) + 256 * ByteAt(data, Len(data)))
             % 2147483647

\* The names of the parameter files, as bytes, in declaration order.
paramFiles ==
    <<
       << 73,116,101,109,77,97,103,69,100,105,116,46,112,114,115 >>,
       << 73,116,101,109,80,77,84,46,112,114,115 >>,
       << 66,97,116,116,108,101,80,97,114,97,109,69,110,116,114,121,46,100,97,116 >>,
       << 66,97,116,116,108,101,80,97,114,97,109,69,110,116,114,121,95,111,110,46,100,97,116 >>,
       << 66,97,116,116,108,101,80,97,114,97,109,69,110,116,114,121,95,108,97,98,46,100,97,116 >>,
       << 66,97,116,116,108,101,80,97,114,97,109,69,110,116,114,121,95,108,97,98,95,111,110,46,100,97,116 >>,
       << 66,97,116,116,108,101,80,97,114,97,109,69,110,116,114,121,95,101,112,52,46,100,97,116 >>,
       << 66,97,116,116,108,101,80,97,114,97,109,69,110,116,114,121,95,101,112,52,95,111,110,46,100,97,116 >>,
       << 80,108,121,76,101,118,101,108,84,98,108,46,112,114,115 >>
    >>

\* ParameterEntry with Size and Offset taking each other's place.
ParameterEntryBytesSwapped(name, data, offset) ==
    LE32(offset) \o LE32(ChecksumIEEE(data)) \o LE32(Len(data)) \o PadTo(name, 64)

\* One serialized ParameterEntry: Size, Checksum, Offset, Filename[0x40].
ParameterEntryBytes(name, data, offset) ==
    LE32(Len(data)) \o LE32(ChecksumIEEE(data)) \o LE32(offset) \o PadTo(name, 64)

RECURSIVE Concat(_)
\* The concatenation of a sequence of byte sequences.
Concat(seqs) ==
    IF seqs = << >> THEN << >>
    ELSE IF Len(seqs) = 1 THEN seqs[1]
    ELSE LET h == Len(seqs) \div 2
         IN  Concat(SubSeq(seqs, 1, h)) \o Concat(SubSeq(seqs, h + 1, Len(seqs)))

RECURSIVE SumLen(_, _)
\* The summed length of the first n of a sequence of byte sequences.
SumLen(seqs, n) == IF n = 0 THEN 0 ELSE SumLen(seqs, n - 1) + Len(seqs[n])

\* loadParameterFiles that adds the chunk of the remaining data even when
\* nothing remains.
loadParameterFilesTrailing(files) ==
    LET tmpChunkData == Concat(files)
        chunks == Len(tmpChunkData) \div MaxChunkSize
    IN  [ header |-> Concat([i \in 1..Len(files) |->
                        ParameterEntryBytes(paramFiles[i], files[i],
                                            SumLen(files, i - 1))]),
          chunks |-> [k \in 0..chunks |->
                        SubSeq(tmpChunkData, k * MaxChunkSize + 1,
                               Min((k + 1) * MaxChunkSize, Len(tmpChunkData)))] ]

\* loadParameterFiles: the header blob and the chunk map (keys 0, 1, ...).
loadParameterFiles(files) ==
    LET offset == SumLen(files, Len(files))
        tmpChunkData == Concat(files)
        chunks == offset \div MaxChunkSize
        rest == offset - chunks * MaxChunkSize
        keys == IF rest > 0 THEN 0..chunks ELSE 0..(chunks - 1)
    IN  [ header |-> Concat([i \in 1..Len(files) |->
                        ParameterEntryBytes(paramFiles[i], files[i],
                                            SumLen(files, i - 1))]),
          chunks |-> [k \in keys |->
                        IF k < chunks
                        THEN SubSeq(tmpChunkData, k * MaxChunkSize + 1,
                                    (k + 1) * MaxChunkSize)
                        ELSE SubSeq(tmpChunkData, chunks * MaxChunkSize + 1,
                                    Len(tmpChunkData))] ]

(***************************************************************************)
(* Packet handlers (character.go).  A handler takes the client, the        *)
(* storage and what storage answers this time (e), and returns both; err   *)
(* is the Go error, panicked an unrecovered panic.                         *)
(***************************************************************************)
\* The BBLoginError codes (declared outside src/): no error, and the code
\* sent for an unknown account or a wrong password.
BBLoginError == [None |-> 0, Password |-> 2]

\* VerifyAccount (outside src/): checks the credentials against storage and
\* sets the session's guildcard, or reports the authentication error to the
\* client with SendSecurity(errorCode) and returns it.
VerifyAccount(c, e) ==
    IF e.auth = "ok" THEN [c EXCEPT !.guildcard = e.gc]
    ELSE [SendSecurity(c, BBLoginError.Password, 0, 0) EXCEPT !.err = TRUE]

\* handleCharLogin without its reply.
handleCharLoginNoReply(c, e) == VerifyAccount(c, e)

\* handleCharLogin.
handleCharLogin(c, e) ==
    LET v == VerifyAccount(c, e)
    IN  IF v.err THEN v ELSE SendSecurity(v, BBLoginError.None, v.guildcard, 0)

\* handleKeyConfig that sends the default configuration without inserting
\* its row.
handleKeyConfigNoInsert(c, db, e) ==
    IF e.dbErr THEN [c |-> [c EXCEPT !.err = TRUE], db |-> db]
    ELSE IF c.guildcard \in DOMAIN db.player_options
    THEN [c |-> SendOptions(c, db.player_options[c.guildcard]), db |-> db]
    ELSE IF e.insErr THEN [c |-> [c EXCEPT !.err = TRUE], db |-> db]
    ELSE [c |-> SendOptions(c, BaseKeyConfig), db |-> db]

\* handleKeyConfig that goes on after a failed lookup or insert.
handleKeyConfigIgnoresError(c, db, e) ==
    IF e.dbErr \/ (c.guildcard \notin DOMAIN db.player_options /\ e.insErr)
    THEN [c |-> c, db |-> db]
    ELSE IF c.guildcard \in DOMAIN db.player_options
    THEN [c |-> SendOptions(c, db.player_options[c.guildcard]), db |-> db]
    ELSE [c |-> SendOptions(c, BaseKeyConfig),
          db |-> [db EXCEPT !.player_options =
                    [g \in DOMAIN @ \cup {c.guildcard} |->
                        IF g = c.guildcard THEN BaseKeyConfig ELSE @[g]]]]

\* handleKeyConfig.
handleKeyConfig(c, db, e) ==
    IF e.dbErr THEN [c |-> [c EXCEPT !.err = TRUE], db |-> db]
    ELSE IF c.guildcard \in DOMAIN db.player_options
    THEN [c |-> SendOptions(c, db.player_options[c.guildcard]), db |-> db]
    ELSE IF e.insErr THEN [c |-> [c EXCEPT !.err = TRUE], db |-> db]
    ELSE [c |-> SendOptions(c, BaseKeyConfig),
          db |-> [db EXCEPT !.player_options =
                    [g \in DOMAIN @ \cup {c.guildcard} |->
                        IF g = c.guildcard THEN BaseKeyConfig ELSE @[g]]]]

\* The fields of CharPreviewRequestPacket (declared outside src/): the
\* header, Slot and a padding word.
CharPreviewRequestFields == << BBHeaderSize, 4, 4 >>

RECURSIVE StructFromBytesFits(_, _)
\* StructFromBytes(data[:n], &pkt) for a packet of these fields: binary.Read
\* of a field past the n bytes fails, and StructFromBytes panics.
StructFromBytesFits(n, fields) ==
    \/ fields = << >>
    \/ Head(fields) <= n /\ StructFromBytesFits(n - Head(fields), Tail(fields))

\* handleCharacterSelect: the request is decoded from recvData[:8]; with no
\* row the slot is acknowledged as empty (SendCharPreviewNone, outside
\* src/: the CharAck with flag 2), with a row nothing is sent.
handleCharacterSelect(c, e) ==
    IF ~StructFromBytesFits(BBHeaderSize, CharPreviewRequestFields)
    THEN [c EXCEPT !.panicked = TRUE]
    ELSE CASE e.char = "none" ->
                 SendCharacterAck(c, SmallInt(ReadU32(c.recvData, 9)), 2)
           [] e.char = "error" -> [c EXCEPT !.err = TRUE]
           [] OTHER -> c

(***************************************************************************)
(* client.gcData is held as runs: a run [zeros |-> n, bytes |-> b] stands  *)
(* for n zero bytes followed by the bytes b; the slice is the              *)
(* concatenation of its runs, and the nil slice is no run at all.          *)
(***************************************************************************)
RECURSIVE Unpack(_)
\* The bytes runs stand for.
Unpack(runs) ==
    IF runs = << >> THEN << >>
    ELSE IF Len(runs) = 1 THEN Zeros(runs[1].zeros) \o runs[1].bytes
    ELSE LET h == Len(runs) \div 2
         IN  Unpack(SubSeq(runs, 1, h)) \o Unpack(SubSeq(runs, h + 1, Len(runs)))

RECURSIVE RunsLen(_)
\* len() of a slice held as runs.
RunsLen(runs) ==
    IF runs = << >> THEN 0
    ELSE IF Len(runs) = 1 THEN runs[1].zeros + Len(runs[1].bytes)
    ELSE LET h == Len(runs) \div 2
         IN  RunsLen(SubSeq(runs, 1, h)) + RunsLen(SubSeq(runs, h + 1, Len(runs)))

\* GuildcardEntry as BytesFromStruct lays it out (444 bytes), in runs: of a
\* row, Scan fills Guildcard, Language, SectionID and CharClass; the names,
\* the description and the comment stay zero.
GuildcardEntryRuns(r) ==
    << [zeros |-> 0, bytes |-> LE32(r.gc)],
       [zeros |-> 48 + 32 + 176 + 1, bytes |-> << r.language, r.section, r.class >>],
       [zeros |-> 4 + 176, bytes |-> << >>] >>

\* The sizes of the fields of GuildcardData around Entries: Unknown, Blocked
\* and Unknown2 before it, Unknown3 after it; and its number of entries.
GuildcardDataLayout == [before |-> 276 + 7656 + 120, entries |-> 104, after |-> 444]

\* The loop bound of handleGuildcardDataStart ("maximum of 140 entries").
MaxGuildcardRows == 140

\* A row of zeros.
NoRow == [gc |-> 0, language |-> 0, section |-> 0, class |-> 0]

\* The n guildcard rows storage returns.
GuildcardRows(n) ==
    [k \in 1..n |-> [gc |-> 1000 + k, language |-> 1, section |-> 1 + (k % 10),
                     class |-> 1 + (k % 12)]]

\* BytesFromStruct of GuildcardData holding rows in its first entries.
GuildcardDataBytes(rows) ==
    << [zeros |-> GuildcardDataLayout.before, bytes |-> << >>] >>
    \o Concat([k \in 1..Len(rows) |-> GuildcardEntryRuns(rows[k])])
    \o << [zeros |-> (GuildcardDataLayout.entries - Len(rows))
                     * RunsLen(GuildcardEntryRuns(NoRow))
                     + GuildcardDataLayout.after,
           bytes |-> << >>] >>

\* handleGuildcardDataStart: the loop reads up to 140 rows into Entries[i],
\* an array of 104 (an index past it panics, as a failed Scan does); the
\* serialized struct is staged and its header sent.
handleGuildcardDataStart(c, e) ==
    IF e.dbErr THEN [c EXCEPT !.err = TRUE]
    ELSE IF e.rows > 0 /\ e.scanErr
    THEN [c EXCEPT !.panicked = TRUE]
    ELSE IF Min(e.rows, MaxGuildcardRows) > GuildcardDataLayout.entries
    THEN [c EXCEPT !.panicked = TRUE]
    ELSE LET data == GuildcardDataBytes(GuildcardRows(e.rows))
             c1 == [c EXCEPT !.gcData = data,
                             !.gcDataSize = RunsLen(data) % UInt16]
         IN  SendGuildcardHeader(c1, ChecksumIEEE(Unpack(data)), c1.gcDataSize)

\* SendGuildcardChunk that always sends from the start of the blob.
SendGuildcardChunkFirst(c, chunkNum) ==
    LET data == BBHeader(0, PacketTypes.GuildcardChunk, 0)
                \o LE32(0) \o chunkNum
                \o SubSeq(Unpack(c.gcData), 1,
                          Min(MaxChunkSize, RunsLen(c.gcData)))
    IN  sendEncrypted(c, data, Len(data) % UInt16)

\* SendGuildcardChunk(chunkNum): offset and remaining are uint16; a slice
\* expression out of range panics.
SendGuildcardChunk(c, chunkNum) ==
    LET offset == (Low16(chunkNum) * MaxChunkSize) % UInt16
        remaining == (c.gcDataSize + UInt16 - offset) % UInt16
        high == IF remaining > MaxChunkSize
                THEN (offset + MaxChunkSize) % UInt16 ELSE RunsLen(c.gcData)
    IN  IF offset > high \/ high > RunsLen(c.gcData)
        THEN [c EXCEPT !.panicked = TRUE]
        ELSE LET data == BBHeader(0, PacketTypes.GuildcardChunk, 0)
                         \o LE32(0) \o chunkNum
                         \o SubSeq(Unpack(c.gcData), offset + 1, high)
             IN  sendEncrypted(c, data, Len(data) % UInt16)

\* handleGuildcardChunk: Continue is the third u32 after the header.
handleGuildcardChunk(c) ==
    IF ReadU32(c.recvData, 17) # << 1, 0, 0, 0 >> THEN c
    ELSE SendGuildcardChunk(c, ReadU32(c.recvData, 13))

\* handleCharacterUpdate: a stub that returns nil.
handleCharacterUpdate(c) == c

\* The default case returning an error, as a handler failure would.
handleUnknownAsError(c) == [c EXCEPT !.err = TRUE]

\* The default case of the switch: the type is logged, nothing else happens.
handleUnknown(c) == c

\* processCharacterPacket: the switch on the header's Type.
processCharacterPacket(c, db, params, e) ==
    LET type == ReadU16(c.recvData, 3)
        flags == ReadU32(c.recvData, 5)
        T == PacketTypes
    IN  CASE type = T.Login -> [c |-> handleCharLogin(c, e), db |-> db]
          [] type = T.Disconnect -> [c |-> c, db |-> db]
          [] type = T.OptionsRequest -> handleKeyConfig(c, db, e)
          [] type = T.CharPreviewReq -> [c |-> handleCharacterSelect(c, e), db |-> db]
          [] type = T.Checksum ->
                [c |-> SendChecksumAck(c, 1), db |-> db]
          [] type = T.GuildcardReq -> [c |-> handleGuildcardDataStart(c, e), db |-> db]
          [] type = T.GuildcardChunkReq ->
                [c |-> handleGuildcardChunk(c), db |-> db]
          [] type = T.ParameterHeaderReq ->
                [c |-> SendParameterHeader(c, Len(paramFiles), params.header),
                 db |-> db]
          [] type = T.ParameterChunkReq ->
                [c |-> SendParameterChunk(c,
                          IF SmallInt(flags) \in DOMAIN params.chunks
                          THEN params.chunks[SmallInt(flags)] ELSE << >>, flags),
                 db |-> db]
          [] type = T.SetFlag ->
                [c |-> [c EXCEPT !.flag = ReadU32(c.recvData, 9)], db |-> db]
          [] type = T.CharPreview -> [c |-> handleCharacterUpdate(c), db |-> db]
          [] OTHER -> [c |-> handleUnknown(c), db |-> db]

(***************************************************************************)
(* State.                                                                  *)
(***************************************************************************)
VARIABLES
    processUp,        \* FALSE once an unrecovered panic has ended the process
    acceptor,         \* the accept loop of StartCharacter: pc and next conn id
    charConnections,  \* the CHARACTER connection list
    clients,          \* conn id -> client record
    db,               \* storage: player_options
    params,           \* the parameter cache: header blob and chunk map
    menu,             \* the plaintext frames a client of this run may send
    util              \* the call of a byte utility of package util under way

vars == << processUp, acceptor, charConnections, clients, db, params, menu, util >>

ConnIds == 1..MaxConns

\* What storage answers when a handler asks nothing of it: the outcome of
\* VerifyAccount and the guildcard it finds, whether the handler's lookup
\* and its insert fail, the guildcard rows of the account and whether Scan
\* of a row fails, and what the lookup of a character slot finds.
NoEnv ==
    [auth |-> "ok", gc |-> 0, dbErr |-> FALSE, insErr |-> FALSE, rows |-> 0,
     scanErr |-> FALSE, char |-> "none"]

\* Guildcards of the accounts storage knows.
Accounts == { 42 }

\* No utility call is under way.
NoCall ==
    [fn |-> "none", pc |-> "none", arg |-> << >>, result |-> << >>,
     chained |-> FALSE, units |-> << >>]

\* A connection slot nothing has been accepted on yet.
NoClient ==
    [ conn |-> "none", peer |-> "none", sndErr |-> FALSE, inflight |-> << >>,
      wire |-> << >>, clientCrypt |-> NewCrypt(0), serverCrypt |-> NewCrypt(0),
      recvData |-> << >>, recvSize |-> 0, packetSize |-> 0,
      hdrSize |-> BBHeaderSize, guildcard |-> 0, flag |-> << 0, 0, 0, 0 >>,
      gcData |-> << >>, gcDataSize |-> 0,
      pc |-> "none", ret |-> 0, err |-> FALSE, panicked |-> FALSE,
      txlog |-> << >>, rxTotal |-> 0, sent |-> << >>, dispatched |-> << >>,
      endCause |-> "", peerTx |-> NewCrypt(0), env |-> NoEnv,
      sndBlock |-> FALSE ]

\* How many guildcard rows an account may have: none, one, as many as
\* GuildcardData holds, one more, and the bound of the handler's loop.
RowCounts ==
    { 0, 1, GuildcardDataLayout.entries, GuildcardDataLayout.entries + 1,
      MaxGuildcardRows }

\* What storage may answer to the handler of a frame of this type.
EnvFor(type) ==
    CASE type = PacketTypes.Login ->
            { [NoEnv EXCEPT !.gc = g] : g \in Accounts }
            \cup { [NoEnv EXCEPT !.auth = "bad"] }
      [] type = PacketTypes.OptionsRequest ->
            { [NoEnv EXCEPT !.dbErr = d, !.insErr = n] : d, n \in BOOLEAN }
      [] type = PacketTypes.GuildcardReq ->
            { [NoEnv EXCEPT !.dbErr = TRUE] }
            \cup { [NoEnv EXCEPT !.rows = n, !.scanErr = x] :
                      n \in RowCounts, x \in BOOLEAN }
      [] type = PacketTypes.CharPreviewReq ->
            { [NoEnv EXCEPT !.char = x] : x \in {"none", "exists", "error"} }
      [] OTHER -> { NoEnv }

\* The frames of the transport runs: a checksum (answered), a set-flag with
\* a body, a type without a case, a login, and a header whose size is 3.
TransportFrames ==
    { BBHeader(8, PacketTypes.Checksum, 0),
      BBHeader(16, PacketTypes.SetFlag, 0) \o << 5, 0, 0, 0 >> \o Zeros(4),
      BBHeader(8, 4660, 0),
      BBHeader(8, PacketTypes.Login, 0),
      BBHeader(3, PacketTypes.Checksum, 0) }

\* The parameter files of the runs that do not vary them.
SmallFiles == [i \in 1..Len(paramFiles) |-> << i >>]

FramesSent == SumLen([i \in ConnIds |-> clients[i].sent], MaxConns)

RECURSIVE PeerEventsUpTo(_)
\* How many peers of connections 1..n closed or broke their connection.
PeerEventsUpTo(n) ==
    IF n = 0 THEN 0
    ELSE PeerEventsUpTo(n - 1)
         + (IF clients[n].peer \in {"closed", "reset"} THEN 1 ELSE 0)

\* The steps the peers have taken so far.
PeerSteps ==
    (acceptor.next - 1) + (IF acceptor.pc = "newclient" THEN 1 ELSE 0)
    + FramesSent + PeerEventsUpTo(MaxConns)

(***************************************************************************)
(* Init: StartCharacter has loaded the parameter files and opened its      *)
(* socket; nothing has connected.                                          *)
(***************************************************************************)
Init ==
    /\ util = NoCall
    /\ processUp = TRUE
    /\ acceptor = [pc |-> "accept", next |-> 1]
    /\ charConnections = {}
    /\ clients = [i \in ConnIds |-> NoClient]
    /\ db = [player_options |-> << >>]
    /\ params = loadParameterFiles(SmallFiles)
    /\ menu = TransportFrames

(***************************************************************************)
(* The acceptor (StartCharacter's loop) and NewClient.                     *)
(***************************************************************************)
\* socket.AcceptTCP returns the next connection.
Accept ==
    /\ processUp
    /\ acceptor.pc = "accept"
    /\ acceptor.next \in ConnIds
    /\ PeerSteps < MaxPeerSteps
    /\ clients' = [clients EXCEPT ![acceptor.next] =
                      [NoClient EXCEPT !.conn = "open", !.peer = "open"]]
    /\ acceptor' = [acceptor EXCEPT !.pc = "newclient"]
    /\ UNCHANGED << processUp, charConnections, db, params, menu, util >>

\* NewClient: fresh ciphers, the receive buffer, then the welcome packet.
\* client is nil (ret # 0) when the welcome could not be written.
NewClient(c, cseed, sseed) ==
    SendWelcome([c EXCEPT !.clientCrypt = NewCrypt(cseed),
                          !.serverCrypt = NewCrypt(sseed),
                          !.peerTx = NewCrypt(cseed),
                          !.recvData = << >>])

\* The (client, server) key seeds CreateKeys may draw.
KeySeeds == { << 3, 5 >> }

\* ConnectionList.AddClient / RemoveClient (the list is declared outside src/).
AddClient(list, i) == list \cup {i}

RemoveClient(list, i) == list \ {i}

\* The rest of one turn of the accept loop: NewClient, then on success
\* AddClient and go handleCharacterClient; on failure continue.
NewClientStep ==
    /\ processUp
    /\ acceptor.pc = "newclient"
    /\ \E seeds \in KeySeeds :
          LET i == acceptor.next
              c == NewClient(clients[i], seeds[1], seeds[2])
          IN  IF c.ret # 0
              THEN /\ clients' = [clients EXCEPT ![i] = c]
                   /\ UNCHANGED charConnections
              ELSE /\ charConnections' = AddClient(charConnections, i)
                   /\ clients' = [clients EXCEPT ![i] = [c EXCEPT !.pc = "hdr"]]
    /\ acceptor' = [pc |-> "accept", next |-> acceptor.next + 1]
    /\ UNCHANGED << processUp, db, params, menu, util >>

(***************************************************************************)
(* The peer and the network.                                               *)
(***************************************************************************)
\* A client that has the welcome packet, and with it the keys, sends one
\* frame of the menu, encrypted with its side of the client cipher.
ClientSend(i) ==
    /\ processUp
    /\ clients[i].conn = "open" /\ clients[i].peer = "open"
    /\ clients[i].wire # << >> /\ clients[i].wire[1].ok
    /\ PeerSteps < MaxPeerSteps
    /\ \E f \in menu :
          LET c == clients[i]
          IN  clients' = [clients EXCEPT ![i] =
                [c EXCEPT !.inflight = @ \o EncryptBytes(c.peerTx.key, c.peerTx.pos,
                                                         f, Len(f)),
                          !.peerTx = Advance(@, Len(f)),
                          !.sent = Append(@, f)]]
    /\ UNCHANGED << processUp, acceptor, charConnections, db, params, menu, util >>

\* The peer closes its end (FIN): what it sent is still delivered.
PeerClose(i) ==
    /\ processUp
    /\ PeerSteps < MaxPeerSteps
    /\ clients[i].conn = "open" /\ clients[i].peer = "open"
    /\ clients' = [clients EXCEPT ![i].peer = "closed"]
    /\ UNCHANGED << processUp, acceptor, charConnections, db, params, menu, util >>

\* The connection breaks (RST): reads and writes fail from now on.
PeerReset(i) ==
    /\ processUp
    /\ PeerSteps < MaxPeerSteps
    /\ clients[i].conn = "open" /\ clients[i].peer = "open"
    /\ clients' = [clients EXCEPT ![i].peer = "reset", ![i].sndErr = TRUE,
                                  ![i].inflight = << >>]
    /\ UNCHANGED << processUp, acceptor, charConnections, db, params, menu, util >>

\* After the peer closed, the server's writes start to fail (EPIPE) while
\* the bytes already received can still be read.
WriteBreaks(i) ==
    /\ processUp
    /\ clients[i].conn = "open" /\ clients[i].peer = "closed"
    /\ ~clients[i].sndErr
    /\ clients' = [clients EXCEPT ![i].sndErr = TRUE]
    /\ UNCHANGED << processUp, acceptor, charConnections, db, params, menu, util >>

(***************************************************************************)
(* The session task: handleCharacterClient.                                *)
(***************************************************************************)
Max(a, b) == IF a > b THEN a ELSE b

\* copy of bytes into buf[at : at+len(bytes)] (at is the Go offset).
StoreAt(buf, at, bytes) ==
    TrimZeros([i \in 1..Max(Len(buf), at + Len(bytes)) |->
                 IF at < i /\ i <= at + Len(bytes) THEN bytes[i - at]
                 ELSE ByteAt(buf, i)])

\* What client.conn.Read(client.recvData[client.recvSize:]) may return now:
\* (0, nil) for an empty slice, an error on a broken connection, some of the
\* bytes in flight (the first segments, up to MaxReadSegs of them, or all
\* that is there or fits), EOF after the peer closed; no outcome while it
\* blocks.
ReadOutcomes(c) ==
    LET room == RecvBufLen - c.recvSize
    IN  IF room <= 0 THEN { [n |-> 0, err |-> "nil"] }
        ELSE IF c.peer = "reset" THEN { [n |-> 0, err |-> "error"] }
        ELSE IF c.inflight # << >>
        THEN { [n |-> k, err |-> "nil"] :
                 k \in { j \in 1..Min(Len(c.inflight), room) :
                           \/ j % SegBytes = 0 /\ j <= MaxReadSegs * SegBytes
                           \/ j = Len(c.inflight)
                           \/ j = room } }
        ELSE IF c.peer = "closed" THEN { [n |-> 0, err |-> "EOF"] }
        ELSE {}

\* The n bytes a Read returned, stored at recvSize; recvSize += n.
Received(c, n) ==
    [c EXCEPT !.recvData = StoreAt(@, c.recvSize, SubSeq(c.inflight, 1, n)),
              !.inflight = SubSeq(@, n + 1, Len(@)),
              !.recvSize = @ + n,
              !.rxTotal = @ + n]

\* Decrypt that starts at the head of the buffer whatever from is: the
\* body's call takes the header through the cipher a second time.
DecryptAtFromStart(c, from, length) ==
    [c EXCEPT !.recvData = StoreAt(@, 0,
                  DecryptBytes(c.clientCrypt.key, c.clientCrypt.pos,
                               Slice(@, 1, from + length), from + length)),
              !.clientCrypt = Advance(@, from + length)]

\* clientCrypt.Decrypt(recvData[from : from+length], length), in place.
DecryptAt(c, from, length) ==
    [c EXCEPT !.recvData = StoreAt(@, from,
                  DecryptBytes(c.clientCrypt.key, c.clientCrypt.pos,
                               Slice(@, from + 1, length), length)),
              !.clientCrypt = Advance(@, length)]

\* Where the task goes once the header loop and the body loop's test ran.
AfterRead(c) ==
    [c EXCEPT !.pc = IF c.recvSize < BBHeaderSize THEN "hdr"
                     ELSE IF c.recvSize < c.packetSize THEN "body"
                     ELSE "dispatch"]

\* One turn of the header loop for the Read outcome o.  pc "exit" stands
\* for the return out of handleCharacterClient.
headerRead(c, o) ==
    IF o.n = 0 \/ o.err = "EOF"
    THEN [c EXCEPT !.conn = "closed", !.pc = "exit", !.endCause = "eof"]
    ELSE IF o.err # "nil"
    THEN [c EXCEPT !.pc = "exit", !.endCause = "sockerr"]
    ELSE LET c1 == Received(c, o.n)
         IN  IF c1.recvSize >= BBHeaderSize
             THEN LET c2 == DecryptAt(c1, 0, BBHeaderSize)
                  IN  AfterRead([c2 EXCEPT !.packetSize = GetPacketSize(c2.recvData)])
             ELSE AfterRead(c1)

\* One turn of the body loop for the Read outcome o: any error panics.
bodyRead(c, o) ==
    IF o.err # "nil"
    THEN [c EXCEPT !.pc = "exit", !.endCause = "readpanic", !.panicked = TRUE]
    ELSE AfterRead(Received(c, o.n))

\* The deferred function without the removal from the connection list.
DeferredKeepsListed(c, list, i) ==
    [c |-> [c EXCEPT !.conn = "closed", !.pc = "done"], list |-> list]

\* The deferred function of handleCharacterClient: conn.Close() and
\* charConnections.RemoveClient(client).  recover() is commented out.
Deferred(c, list, i) ==
    [c |-> [c EXCEPT !.conn = "closed", !.pc = "done"],
     list |-> RemoveClient(list, i)]

\* The frame is complete: decrypt the rest, dispatch, then clear the buffer
\* and the cursors, or leave the loop on an error.
dispatchFrame(c, store, cache, e) ==
    LET c1 == IF c.packetSize > BBHeaderSize
              THEN DecryptAt(c, BBHeaderSize, c.packetSize - BBHeaderSize)
              ELSE c
        c2 == [c1 EXCEPT !.err = FALSE, !.panicked = FALSE, !.ret = 0,
                         !.env = e,
                         !.dispatched = Append(@,
                             Slice(c1.recvData, 1, Max(BBHeaderSize, c1.packetSize)))]
        r  == processCharacterPacket(c2, store, cache, e)
    IN  IF r.c.panicked
        THEN [r EXCEPT !.c.pc = "exit", !.c.endCause = "panic"]
        ELSE IF r.c.err
        THEN [r EXCEPT !.c.pc = "exit", !.c.endCause = "handler"]
        ELSE [r EXCEPT !.c.recvData = TrimZeros(ZeroSlice(@, r.c.recvSize)),
                       !.c.recvSize = 0, !.c.packetSize = 0, !.c.pc = "hdr"]

\* The step of task i that leaves it as c: the task goes on, or it returns
\* (the deferred function runs), or it panics (the deferred function runs,
\* then the process ends, since nothing recovers).
TaskStep(i, c) ==
    IF c.pc = "exit"
    THEN LET d == Deferred(c, charConnections, i)
         IN  /\ clients' = [clients EXCEPT ![i] = d.c]
             /\ charConnections' = d.list
             /\ processUp' = ~c.panicked
    ELSE /\ clients' = [clients EXCEPT ![i] = c]
         /\ UNCHANGED << charConnections, processUp >>

ReadHeader(i) ==
    /\ processUp
    /\ clients[i].pc = "hdr"
    /\ \E o \in ReadOutcomes(clients[i]) : TaskStep(i, headerRead(clients[i], o))
    /\ UNCHANGED << acceptor, db, params, menu, util >>

ReadBody(i) ==
    /\ processUp
    /\ clients[i].pc = "body"
    /\ \E o \in ReadOutcomes(clients[i]) : TaskStep(i, bodyRead(clients[i], o))
    /\ UNCHANGED << acceptor, db, params, menu, util >>

Dispatch(i) ==
    /\ processUp
    /\ clients[i].pc = "dispatch"
    /\ \E e \in EnvFor(ReadU16(clients[i].recvData, 3)) :
          LET r == dispatchFrame(clients[i], db, params, e)
          IN  /\ TaskStep(i, r.c)
              /\ db' = r.db
    /\ UNCHANGED << acceptor, params, menu, util >>

Next ==
    \/ Accept
    \/ NewClientStep
    \/ \E i \in ConnIds : ClientSend(i)
    \/ \E i \in ConnIds : PeerClose(i)
    \/ \E i \in ConnIds : PeerReset(i)
    \/ \E i \in ConnIds : WriteBreaks(i)
    \/ \E i \in ConnIds : ReadHeader(i)
    \/ \E i \in ConnIds : ReadBody(i)
    \/ \E i \in ConnIds : Dispatch(i)

Spec == Init /\ [][Next]_vars

(***************************************************************************)
(* The send path on its own: one session, past NewClient, on which a       *)
(* handler sends serialized records through sendEncrypted, for both header *)
(* sizes.  The records of a run are short ones of every length, or one     *)
(* zero-filled record at the top of the uint16 range of the length         *)
(* parameter.  A record of the menu is its length n and its bytes b        *)
(* without the trailing zeros.                                             *)
(***************************************************************************)
\* n bytes, none of them zero.
BytesOf(n) == [i \in 1..n |-> 1 + ((7 * i) % 255)]

ShortRecords == { [n |-> k, b |-> BytesOf(k)] : k \in 2..MaxLen }

LongRecords == { [n |-> k, b |-> << >>] : k \in {UInt16 - 3, UInt16 - 1} }

InitSend ==
    /\ util = NoCall
    /\ processUp = TRUE
    /\ acceptor = [pc |-> "accept", next |-> 2]
    /\ charConnections = {1}
    /\ \E h \in {PCHeaderSize, BBHeaderSize} : \E seeds \in KeySeeds :
          clients = [i \in ConnIds |->
             IF i = 1
             THEN [NewClient([NoClient EXCEPT !.conn = "open", !.peer = "open",
                                              !.hdrSize = h],
                             seeds[1], seeds[2]) EXCEPT !.pc = "send"]
             ELSE NoClient]
    /\ db = [player_options |-> << >>]
    /\ params = loadParameterFiles(SmallFiles)
    /\ menu \in {ShortRecords} \cup { {r} : r \in LongRecords }

\* A handler sends one record: sendEncrypted(client, data, uint16(size)).
SendRecord ==
    /\ clients[1].pc = "send"
    /\ Len(clients[1].txlog) < MaxSends
    /\ \E r \in menu :
          clients' = [clients EXCEPT ![1] =
                         sendEncrypted(clients[1], PadTo(r.b, r.n), r.n % UInt16)]
    /\ UNCHANGED << processUp, acceptor, charConnections, db, params, menu, util >>

NextSend ==
    \/ SendRecord
    \/ PeerReset(1)

SpecSend == InitSend /\ [][NextSend]_vars

(***************************************************************************)
(* The handlers on their own: one session, past NewClient, whose client    *)
(* sends the frames of one phase of the login sequence: login and options, *)
(* the character preview, the guildcard request and the request of one     *)
(* chunk or its cancellation, or the parameter requests.                   *)
(***************************************************************************)
\* A GuildcardChunkReq frame (header, Unknown, ChunkRequested, Continue),
\* padded to the frame quantum; chunk is a u32 as its four bytes.
ChunkReqFrame(chunk, continue) ==
    BBHeader(24, PacketTypes.GuildcardChunkReq, 0) \o LE32(0) \o chunk
    \o LE32(continue) \o Zeros(4)

\* The chunk numbers asked for: the three chunks of the blob, the first
\* past its end, and 65536.
ChunkNumbers ==
    { << 0, 0, 0, 0 >>, << 1, 0, 0, 0 >>, << 2, 0, 0, 0 >>, << 3, 0, 0, 0 >>,
      << 0, 0, 1, 0 >> }

LoginFrames ==
    { BBHeader(8, PacketTypes.Login, 0), BBHeader(8, PacketTypes.OptionsRequest, 0) }

PreviewFrames ==
    { BBHeader(16, PacketTypes.CharPreviewReq, 0) \o LE32(1) \o LE32(0) }

GuildcardFrames(chunk) ==
    { BBHeader(8, PacketTypes.GuildcardReq, 0), ChunkReqFrame(chunk, 1) }

\* The guildcard request and a chunk request that cancels the transfer.
CancelFrames ==
    { BBHeader(8, PacketTypes.GuildcardReq, 0),
      ChunkReqFrame(<< 0, 0, 0, 0 >>, 0) }

\* The parameter requests: the header, chunk 0 (cached), and two indices
\* the cache does not hold, 1 and 65536.
ParameterFrames ==
    { BBHeader(8, PacketTypes.ParameterHeaderReq, 0),
      BBHeader(8, PacketTypes.ParameterChunkReq, 0),
      BBHeader(8, PacketTypes.ParameterChunkReq, 1),
      BBHeader(8, PacketTypes.ParameterChunkReq, UInt16) }

\* A key configuration a player has saved.
StoredKeyConfig == [i \in 1..420 |-> (3 * i) % 256]

InitSession ==
    /\ util = NoCall
    /\ processUp = TRUE
    /\ acceptor = [pc |-> "accept", next |-> 2]
    /\ charConnections = {1}
    /\ \E seeds \in KeySeeds :
          clients = [i \in ConnIds |->
             IF i = 1
             THEN [NewClient([NoClient EXCEPT !.conn = "open", !.peer = "open"],
                             seeds[1], seeds[2]) EXCEPT !.pc = "hdr"]
             ELSE NoClient]
    /\ params = loadParameterFiles(SmallFiles)
    /\ \/ /\ menu = LoginFrames
          /\ db \in { [player_options |-> << >>],
                      [player_options |-> [g \in Accounts |-> StoredKeyConfig]] }
       \/ /\ menu \in { PreviewFrames, ParameterFrames, CancelFrames }
                       \cup { GuildcardFrames(k) : k \in ChunkNumbers }
          /\ db = [player_options |-> << >>]

\* The client sends its next request once the server has taken the last
\* one (the login sequence is a dialogue of requests and replies); only its
\* login and its options request may follow each other without waiting.
ClientRequest ==
    /\ \/ menu = LoginFrames
       \/ /\ clients[1].pc = "hdr"
          /\ clients[1].recvSize = 0 /\ clients[1].inflight = << >>
    /\ ClientSend(1)

NextSession ==
    \/ ClientRequest
    \/ ReadHeader(1)
    \/ ReadBody(1)
    \/ Dispatch(1)

SpecSession == InitSession /\ [][NextSession]_vars

(***************************************************************************)
(* Sessions side by side: every connection slot holds a session past       *)
(* NewClient whose client has sent its whole input, one frame, and the     *)
(* tasks run in any interleaving.  The inputs hold one frame each, so that *)
(* a session alone has one outcome however its stream is cut into reads.   *)
(***************************************************************************)
\* The input of a session: a checksum request (answered), a set-flag frame
\* with a body (stored, not answered), or a character preview request.
InputStreams ==
    { BBHeader(8, PacketTypes.Checksum, 0),
      BBHeader(16, PacketTypes.SetFlag, 0) \o << 5, 0, 0, 0 >> \o Zeros(4) }
    \cup PreviewFrames

\* The session NewClient made for a connection whose client has sent frame.
SessionWithInput(seeds, frame) ==
    LET c == NewClient([NoClient EXCEPT !.conn = "open", !.peer = "open"],
                       seeds[1], seeds[2])
    IN  [c EXCEPT !.pc = "hdr",
                  !.inflight = EncryptBytes(c.peerTx.key, c.peerTx.pos, frame,
                                            Len(frame)),
                  !.peerTx = Advance(@, Len(frame)),
                  !.sent = << frame >>]

InitConcurrent ==
    /\ util = NoCall
    /\ processUp = TRUE
    /\ acceptor = [pc |-> "accept", next |-> MaxConns + 1]
    /\ charConnections = ConnIds
    /\ \E seeds \in KeySeeds :
          clients \in [ConnIds -> { SessionWithInput(seeds, f) : f \in InputStreams }]
    /\ db = [player_options |-> << >>]
    /\ params = loadParameterFiles(SmallFiles)
    /\ menu = InputStreams

NextConcurrent ==
    \/ \E i \in ConnIds : ReadHeader(i)
    \/ \E i \in ConnIds : ReadBody(i)
    \/ \E i \in ConnIds : Dispatch(i)

SpecConcurrent == InitConcurrent /\ [][NextConcurrent]_vars

(***************************************************************************)
(* Blocking writes.  conn.Write returns once the socket has taken the      *)
(* bytes; while the socket of a connection takes none (sndBlock), the      *)
(* caller of a write to it waits inside the call.  A step that writes is   *)
(* a step of the goroutine that makes the call: the welcome packet is      *)
(* written by NewClient, in the accept loop; the replies are written by    *)
(* the handlers, in the session's task.                                    *)
(***************************************************************************)
\* The frames of the runs with blocking writes: one that is answered and
\* one that is not.
BackpressureFrames ==
    { BBHeader(8, PacketTypes.Checksum, 0),
      BBHeader(16, PacketTypes.SetFlag, 0) \o << 5, 0, 0, 0 >> \o Zeros(4) }

InitBackpressure ==
    /\ util = NoCall
    /\ processUp = TRUE
    /\ acceptor = [pc |-> "accept", next |-> 1]
    /\ charConnections = {}
    /\ clients = [i \in ConnIds |-> NoClient]
    /\ db = [player_options |-> << >>]
    /\ params = loadParameterFiles(SmallFiles)
    /\ menu = BackpressureFrames

\* The socket of connection i stops taking bytes: its send buffer is full
\* and the client does not read.
PeerStalls(i) ==
    /\ processUp
    /\ clients[i].conn = "open" /\ clients[i].peer = "open"
    /\ ~clients[i].sndBlock
    /\ clients' = [clients EXCEPT ![i].sndBlock = TRUE]
    /\ UNCHANGED << processUp, acceptor, charConnections, db, params, menu, util >>

\* The client reads again and the socket takes bytes.
PeerDrains(i) ==
    /\ processUp
    /\ clients[i].conn = "open" /\ clients[i].sndBlock
    /\ clients' = [clients EXCEPT ![i].sndBlock = FALSE]
    /\ UNCHANGED << processUp, acceptor, charConnections, db, params, menu, util >>

\* NewClient in the accept loop: SendWelcome returns, and the loop goes on,
\* once the socket has taken the welcome packet.
BlockingNewClient ==
    /\ acceptor.pc = "newclient"
    /\ ~clients[acceptor.next].sndBlock
    /\ NewClientStep

\* The dispatch of a frame in the task of session i: a handler that writes
\* returns once the socket has taken its reply.
BlockingDispatch(i) ==
    /\ Dispatch(i)
    /\ clients[i].sndBlock => clients[i].wire' = clients[i].wire

NextBackpressure ==
    \/ Accept
    \/ BlockingNewClient
    \/ \E i \in ConnIds : ClientSend(i)
    \/ \E i \in ConnIds : PeerStalls(i)
    \/ \E i \in ConnIds : PeerDrains(i)
    \/ \E i \in ConnIds : ReadHeader(i)
    \/ \E i \in ConnIds : ReadBody(i)
    \/ \E i \in ConnIds : BlockingDispatch(i)

SpecBackpressure == InitBackpressure /\ [][NextBackpressure]_vars

(***************************************************************************)
(* The wait for the body: one session, past NewClient, whose client sends  *)
(* one frame, all of it or its header only, and may then close its end.    *)
(* The size fields are 0, 16, the length of the receive buffer, one        *)
(* quantum more, and the largest a uint16 holds.                           *)
(***************************************************************************)
\* A frame without a handler whose header says size, n bytes long.
FrameOfSize(size, n) == BBHeader(size, 4660, 0) \o Zeros(n - BBHeaderSize)

FramingFrames ==
    { FrameOfSize(0, BBHeaderSize),
      FrameOfSize(2 * BBHeaderSize, 2 * BBHeaderSize),
      FrameOfSize(2 * BBHeaderSize, BBHeaderSize),
      FrameOfSize(RecvBufLen, RecvBufLen),
      FrameOfSize(RecvBufLen + BBHeaderSize, RecvBufLen + BBHeaderSize),
      FrameOfSize(UInt16 - 1, BBHeaderSize) }

InitFraming ==
    /\ util = NoCall
    /\ processUp = TRUE
    /\ acceptor = [pc |-> "accept", next |-> 2]
    /\ charConnections = {1}
    /\ \E seeds \in KeySeeds :
          clients = [i \in ConnIds |->
             IF i = 1
             THEN [NewClient([NoClient EXCEPT !.conn = "open", !.peer = "open"],
                             seeds[1], seeds[2]) EXCEPT !.pc = "hdr"]
             ELSE NoClient]
    /\ db = [player_options |-> << >>]
    /\ params = loadParameterFiles(SmallFiles)
    /\ menu = FramingFrames

\* The client sends its frame.
ClientFrame ==
    /\ clients[1].sent = << >>
    /\ ClientSend(1)

NextFraming ==
    \/ ClientFrame
    \/ PeerClose(1)
    \/ ReadHeader(1)
    \/ ReadBody(1)
    \/ Dispatch(1)

SpecFraming == InitFraming /\ [][NextFraming]_vars

(***************************************************************************)
(* loadParameterFiles on its own: the parameter files on disk have the     *)
(* sizes db.files (read in declaration order) and known contents; the      *)
(* server's start-up loads them into the cache.  The lists of sizes are    *)
(* the short ones, and those whose total lies around one and two chunks.   *)
(***************************************************************************)
\* The largest size of a parameter file in the lists of short files.
MaxFileLen == 2

\* The contents of parameter file i when its size is n: no byte is zero.
ParamFileData(i, n) == [p \in 1..n |-> 1 + ((17 * i + p) % 255)]

\* What ioutil.ReadFile returns for the files of these sizes.
ReadFiles(sizes) == [i \in 1..Len(sizes) |-> ParamFileData(i, sizes[i])]

\* Sizes of the nine files: the first three and the last one short, or the
\* first long and the second short or empty.
FileSizeLists ==
    { << a, b, c, 0, 0, 0, 0, 0, d >> : a, b, c, d \in 0..MaxFileLen }
    \cup { << a, b, 0, 0, 0, 0, 0, 0, 0 >> :
              a \in { MaxChunkSize - 1, MaxChunkSize, 2 * MaxChunkSize },
              b \in 0..1 }

InitParams ==
    /\ util = NoCall
    /\ processUp = TRUE
    /\ acceptor = [pc |-> "load", next |-> 1]
    /\ charConnections = {}
    /\ clients = [i \in ConnIds |-> NoClient]
    /\ \E sizes \in FileSizeLists :
          db = [player_options |-> << >>, files |-> sizes]
    /\ params = [header |-> << >>, chunks |-> << >>]
    /\ menu = {}

\* StartCharacter that listens without having loaded the parameter files.
ListenWithoutLoading ==
    /\ acceptor.pc = "load"
    /\ acceptor' = [acceptor EXCEPT !.pc = "accept"]
    /\ UNCHANGED << processUp, charConnections, clients, db, params, menu, util >>

\* StartCharacter calls loadParameterFiles before it listens.
LoadParameterFiles ==
    /\ acceptor.pc = "load"
    /\ params' = loadParameterFiles(ReadFiles(db.files))
    /\ acceptor' = [acceptor EXCEPT !.pc = "accept"]
    /\ UNCHANGED << processUp, charConnections, clients, db, menu, util >>

NextParams == LoadParameterFiles

SpecParams == InitParams /\ [][NextParams]_vars

(***************************************************************************)
(* The parameter cache and the sessions: StartCharacter loads the files,   *)
(* then listens; the clients of the sessions it accepts send parameter     *)
(* requests.                                                               *)
(***************************************************************************)
\* Sizes of the nine parameter files on disk in the runs with sessions.
CacheFileSizes ==
    { << 1, 1, 1, 1, 1, 1, 1, 1, 1 >>, << 2, 0, 1, 0, 0, 0, 0, 0, 0 >> }

\* The parameter requests of these runs: the header, chunk 0, and chunk 1,
\* which the cache does not hold, in a frame padded to two quanta.
CacheFrames ==
    { BBHeader(8, PacketTypes.ParameterHeaderReq, 0),
      BBHeader(8, PacketTypes.ParameterChunkReq, 0),
      BBHeader(2 * BBHeaderSize, PacketTypes.ParameterChunkReq, 1)
         \o Zeros(BBHeaderSize) }

InitCache ==
    /\ util = NoCall
    /\ processUp = TRUE
    /\ acceptor = [pc |-> "load", next |-> 1]
    /\ charConnections = {}
    /\ clients = [i \in ConnIds |-> NoClient]
    /\ \E sizes \in CacheFileSizes :
          db = [player_options |-> << >>, files |-> sizes]
    /\ params = [header |-> << >>, chunks |-> << >>]
    /\ menu = CacheFrames

NextCache ==
    \/ LoadParameterFiles
    \/ Accept
    \/ NewClientStep
    \/ \E i \in ConnIds : ClientSend(i)
    \/ \E i \in ConnIds : ReadHeader(i)
    \/ \E i \in ConnIds : ReadBody(i)
    \/ \E i \in ConnIds : Dispatch(i)

SpecCache == InitCache /\ [][NextCache]_vars

(***************************************************************************)
(* The byte utilities of package util on their own: StripPadding,          *)
(* Utf8To16 and ExpandUtf16 are pure functions of their argument.  A run   *)
(* draws one argument, calls the function, and may hand the bytes          *)
(* ExpandUtf16 returned to Utf8To16.                                       *)
(***************************************************************************)
\* Longest byte sequence drawn as an argument.
MaxBytes == 3
\* Longest sequence of 16-bit values drawn as an argument.
MaxUnits == 2

\* The byte values the arguments are drawn from: zero, a low value, a
\* value with the top bit clear, and the largest.
ByteValues == { 0, 1, 18, 255 }

\* The 16-bit values the arguments are drawn from: values that fit a byte,
\* the first that does not, 0x1234, and the largest.
UnitValues == { 0, 1, 255, 256, 4660, 65535 }

RECURSIVE BitOr(_, _)
\* a | b on unsigned integers.
BitOr(a, b) ==
    IF a = 0 THEN b
    ELSE IF b = 0 THEN a
    ELSE (IF a % 2 = 1 \/ b % 2 = 1 THEN 1 ELSE 0)
         + 2 * BitOr(a \div 2, b \div 2)

\* v << k on a uint8: the bits shifted past the eighth are lost.
ShlU8(v, k) == (v * (2 ^ k)) % 256

\* Utf8To16: an odd-length src gets a zero byte appended; element i is
\* uint16(src[2i] | (src[2i+1] << 8)), the operands being uint8.
Utf8To16(src) ==
    LET s == IF Len(src) % 2 # 0 THEN Append(src, 0) ELSE src
    IN  [i \in 1..(Len(s) \div 2) |->
            BitOr(s[2 * i - 1], ShlU8(s[2 * i], 8)) % UInt16]

RECURSIVE ExpandUtf16(_)
\* ExpandUtf16: each 16-bit value as its low byte, then its high byte.
ExpandUtf16(src) ==
    IF src = << >> THEN << >>
    ELSE << Head(src) % 256, (Head(src) \div 256) % 256 >>
         \o ExpandUtf16(Tail(src))

RECURSIVE StripFrom(_, _)
\* The loop of StripPadding from index i down: b[:i] at the first non-zero
\* byte it meets, b itself when it meets none.
StripFrom(b, i) ==
    IF i = 0 THEN b
    ELSE IF b[i] # 0 THEN SubSeq(b, 1, i)
    ELSE StripFrom(b, i - 1)

StripPadding(b) == StripFrom(b, Len(b))

\* The sequences of length 0..n over the set S.
SeqsUpTo(S, n) == UNION { [1..k -> S] : k \in 0..n }

\* A call about to be made.
Call(fn, arg) ==
    [fn |-> fn, pc |-> "call", arg |-> arg, result |-> << >>,
     chained |-> FALSE, units |-> << >>]

InitUtil ==
    /\ processUp = TRUE
    /\ acceptor = [pc |-> "accept", next |-> MaxConns + 1]
    /\ charConnections = {}
    /\ clients = [i \in ConnIds |-> NoClient]
    /\ db = [player_options |-> << >>]
    /\ params = loadParameterFiles(SmallFiles)
    /\ menu = {}
    /\ util \in { Call("StripPadding", b) : b \in SeqsUpTo(ByteValues, MaxBytes) }
          \cup { Call("Utf8To16", b) : b \in SeqsUpTo(ByteValues, MaxBytes) }
          \cup { Call("ExpandUtf16", x) : x \in SeqsUpTo(UnitValues, MaxUnits) }

\* StripPadding(b) returns.
CallStripPadding ==
    /\ util.fn = "StripPadding"
    /\ util.pc = "call"
    /\ util' = [util EXCEPT !.pc = "done", !.result = StripPadding(util.arg)]
    /\ UNCHANGED << processUp, acceptor, charConnections, clients, db,
                    params, menu >>

\* Utf8To16(src) returns.
CallUtf8To16 ==
    /\ util.fn = "Utf8To16"
    /\ util.pc = "call"
    /\ util' = [util EXCEPT !.pc = "done", !.result = Utf8To16(util.arg)]
    /\ UNCHANGED << processUp, acceptor, charConnections, clients, db,
                    params, menu >>

\* ExpandUtf16(src) returns.
CallExpandUtf16 ==
    /\ util.fn = "ExpandUtf16"
    /\ util.pc = "call"
    /\ util' = [util EXCEPT !.pc = "done", !.result = ExpandUtf16(util.arg)]
    /\ UNCHANGED << processUp, acceptor, charConnections, clients, db,
                    params, menu >>

\* The caller hands the bytes ExpandUtf16 returned to Utf8To16.
ConvertBack ==
    /\ util.fn = "ExpandUtf16"
    /\ util.pc = "done"
    /\ util' = [Call("Utf8To16", util.result) EXCEPT
                   !.chained = TRUE, !.units = util.arg]
    /\ UNCHANGED << processUp, acceptor, charConnections, clients, db,
                    params, menu >>

NextUtil ==
    \/ CallStripPadding
    \/ CallUtf8To16
    \/ CallExpandUtf16
    \/ ConvertBack

SpecUtil == InitUtil /\ [][NextUtil]_vars

(***************************************************************************)
(* Properties of the receive loop.                                         *)
(***************************************************************************)
\* A size field the framing rules accept: at least the header, a multiple
\* of the quantum, at most the receive buffer.
ValidSize(size) ==
    size >= BBHeaderSize /\ size % BBHeaderSize = 0 /\ size <= RecvBufLen

\* The session's task has ended and its connection is closed.
Ended(c) == c.pc = "done" /\ c.conn = "closed"

\* C1: a frame whose decrypted size field is below 8, not a multiple of 8 or
\* above 1024 ends the session: the task never waits for its body nor
\* dispatches it, and no reply is written for it (so a session has at most
\* one reply per dispatched frame of valid size).
C1_BadSizeEndsSession ==
    \A i \in ConnIds :
        LET c == clients[i]
        IN  /\ c.pc \in {"body", "dispatch"} => ValidSize(c.packetSize)
            /\ \A k \in DOMAIN c.dispatched :
                  ValidSize(GetPacketSize(c.dispatched[k]))
            /\ Len(c.txlog) <= Cardinality({ k \in DOMAIN c.dispatched :
                                  ValidSize(GetPacketSize(c.dispatched[k])) })

\* A frame whose size field is 3 has been dispatched and answered, and the
\* session reads on.
C1_Size3Answered ==
    \E i \in ConnIds :
        LET c == clients[i]
        IN  /\ c.dispatched = << BBHeader(3, PacketTypes.Checksum, 0) >>
            /\ Len(c.wire) = 2 /\ c.wire[2].ok
            /\ c.pc = "hdr" /\ c.conn = "open"

\* C2: on a session whose client sent only frames of valid size, however
\* the stream is cut into reads, the frames dispatched are the first frames
\* sent, in order, and between two frames every byte received so far has
\* gone through the client cipher.
C2_EveryFrameOnceInOrder ==
    \A i \in ConnIds :
        LET c == clients[i]
        IN  (\A k \in DOMAIN c.sent : ValidSize(GetPacketSize(c.sent[k])))
            => /\ Len(c.dispatched) <= Len(c.sent)
               /\ \A k \in DOMAIN c.dispatched : c.dispatched[k] = c.sent[k]
               /\ c.pc = "hdr" /\ c.recvSize = 0
                     => c.clientCrypt.pos = c.rxTotal

\* Two valid frames arrived, one was dispatched, and the task waits for a
\* header with an empty buffer although all bytes of both frames were read.
C2_SecondFrameLost ==
    \E i \in ConnIds :
        LET c == clients[i]
        IN  /\ Len(c.sent) = 2
            /\ \A k \in DOMAIN c.sent : ValidSize(GetPacketSize(c.sent[k]))
            /\ c.dispatched = << c.sent[1] >>
            /\ c.pc = "hdr" /\ c.recvSize = 0 /\ c.recvData = << >>
            /\ c.inflight = << >>
            /\ c.rxTotal = Len(c.sent[1]) + Len(c.sent[2])

\* C3: a session that ended because a read failed, while it waited for a
\* header or for the rest of a frame, is closed and off the list, and the
\* process is still running.
C3_ReadFailureEndsOnlyTheSession ==
    \A i \in ConnIds :
        LET c == clients[i]
        IN  c.pc = "done" /\ c.endCause \in {"eof", "sockerr", "readpanic"}
            => /\ c.conn = "closed"
               /\ i \notin charConnections
               /\ processUp

\* A read failed while a session waited for a frame's body; the process is
\* down while another session was still reading.
C3_BodyReadFailureStopsAll ==
    \E i, j \in ConnIds :
        /\ i # j
        /\ clients[i].endCause = "readpanic"
        /\ clients[j].pc = "hdr" /\ clients[j].conn = "open"
        /\ ~processUp

\* C4: once the write of a reply has failed, the session has ended and its
\* connection is closed, and nothing was written after the failed reply.
C4_FailedWriteEndsSession ==
    \A i \in ConnIds :
        LET c == clients[i]
        IN  \A k \in 2..Len(c.wire) :
               ~c.wire[k].ok => Ended(c) /\ k = Len(c.wire)

\* The write of a reply failed, and the session dispatched the next frame
\* and tried to answer it.
C4_ReadsOnAfterFailedWrite ==
    \E i \in ConnIds :
        LET c == clients[i]
        IN  /\ Len(c.wire) = 3 /\ ~c.wire[2].ok
            /\ Len(c.dispatched) = 2
            /\ c.pc = "hdr" /\ c.conn = "open"

(***************************************************************************)
(* Properties of the send path.  Entry k of a session's txlog is the k-th  *)
(* call of sendEncrypted; its write is entry k+1 of wire, after the        *)
(* welcome packet.                                                         *)
(***************************************************************************)
\* The smallest multiple of q that is at least n.
RoundUp(n, q) == ((n + q - 1) \div q) * q

RECURSIVE EncryptedBefore(_, _)
\* The bytes the server cipher took in the first k calls of sendEncrypted.
EncryptedBefore(log, k) ==
    IF k = 0 THEN 0 ELSE EncryptedBefore(log, k - 1) + log[k].encLen

RECURSIVE WrittenAfterWelcome(_, _)
\* The bytes of the writes 2..k of a session.
WrittenAfterWelcome(wire, k) ==
    IF k <= 1 THEN 0 ELSE WrittenAfterWelcome(wire, k - 1) + Len(wire[k].data)

\* C5: a record of L >= 2 bytes sent through sendEncrypted is written as
\* the smallest multiple of the header size that is at least L bytes, and
\* the first two bytes of the frame before encryption are that length,
\* little-endian.
C5_WrittenLengthIsRoundedUp ==
    \A i \in ConnIds :
        LET c == clients[i]
        IN  \A k \in DOMAIN c.txlog :
               LET t == c.txlog[k]
                   padded == RoundUp(t.len, c.hdrSize)
               IN  t.len >= 2
                   => /\ Len(c.wire[k + 1].data) = padded
                      /\ ReadU16(t.frame, 1) = padded

\* A record one byte short of 65536 was passed to sendEncrypted and nothing
\* was written for it.
C5_LongRecordWritesNothing ==
    \E i \in ConnIds :
        LET c == clients[i]
        IN  /\ Len(c.txlog) = 1
            /\ c.txlog[1].len = UInt16 - 1
            /\ c.wire[2].data = << >>
            /\ c.wire[2].ok

\* C6: the frame fixLength returns is the record with zero bytes appended
\* and bytes 0 and 1 overwritten: every other byte of the record is in its
\* place and every byte past the record is zero.
C6_PadsWithZerosStampsTwoBytes ==
    \A i \in ConnIds :
        LET c == clients[i]
        IN  \A k \in DOMAIN c.txlog :
               LET t == c.txlog[k]
               IN  /\ t.frameLen >= t.recLen
                   /\ \A p \in 3..t.recLen : ByteAt(t.frame, p) = ByteAt(t.rec, p)
                   /\ \A p \in (t.recLen + 1)..t.frameLen : ByteAt(t.frame, p) = 0

\* A record whose length is no multiple of the header size was padded, and
\* its bytes past the first two are not zero.
C6_PaddedRecord ==
    \E i \in ConnIds :
        LET c == clients[i]
        IN  \E k \in DOMAIN c.txlog :
               LET t == c.txlog[k]
               IN  /\ t.recLen >= 3
                   /\ t.frameLen > t.recLen
                   /\ \A p \in 3..t.recLen : ByteAt(t.rec, p) # 0

\* C7: for every call of sendEncrypted the length given to Encrypt is the
\* length fixLength stamped into the frame and the number of bytes given to
\* the socket, the bytes written are the padded and stamped frame encrypted
\* from the position the cipher was at, and after all calls the cipher has
\* advanced by the bytes written after the welcome packet.
C7_CipherAdvancesByBytesWritten ==
    \A i \in ConnIds :
        LET c == clients[i]
        IN  /\ \A k \in DOMAIN c.txlog :
                  LET t == c.txlog[k]
                      w == c.wire[k + 1].data
                  IN  /\ t.encLen = ReadU16(t.frame, 1)
                      /\ t.encLen = Len(w)
                      /\ t.encLen % c.hdrSize = 0
                      /\ DecryptBytes(c.serverCrypt.key,
                                      EncryptedBefore(c.txlog, k - 1), w, Len(w))
                            = Slice(t.frame, 1, Len(w))
            /\ c.serverCrypt.pos = EncryptedBefore(c.txlog, Len(c.txlog))
            /\ c.serverCrypt.pos = WrittenAfterWelcome(c.wire, Len(c.wire))

\* Two records were sent in a row, the second one padded, so that its
\* encryption started where the first one's ended.
C7_TwoSendsSecondPadded ==
    \E i \in ConnIds :
        LET c == clients[i]
        IN  /\ Len(c.txlog) >= 2
            /\ c.txlog[1].encLen > 0
            /\ c.txlog[2].encLen > c.txlog[2].len

(***************************************************************************)
(* Properties of a session's life: the welcome packet, frames without a    *)
(* handler, the end of the task.                                           *)
(***************************************************************************)
\* C8: on every connection the first write is the welcome packet in the
\* clear, nothing is read and no task runs before it is written, and every
\* later write is a frame that went through the server cipher once: what
\* is written is not the frame but its encryption at the cipher's position.
C8_WelcomeFirstInTheClear ==
    \A i \in ConnIds :
        LET c == clients[i]
        IN  /\ c.wire # << >> => c.wire[1].data = WelcomeBytes(c)
            /\ (c.rxTotal > 0 \/ c.pc # "none" \/ c.txlog # << >>)
                  => c.wire # << >> /\ c.wire[1].ok
            /\ c.wire # << >> => Len(c.wire) = 1 + Len(c.txlog)
            /\ \A k \in DOMAIN c.txlog :
                  LET t == c.txlog[k]
                      w == c.wire[k + 1].data
                      plain == Slice(t.frame, 1, t.frameLen)
                  IN  /\ w # plain
                      /\ w = EncryptBytes(c.serverCrypt.key,
                                          EncryptedBefore(c.txlog, k - 1),
                                          plain, t.frameLen)

\* A session read a frame and answered it: its second write follows the
\* welcome packet.
C8_ReplyAfterWelcome ==
    \E i \in ConnIds :
        LET c == clients[i]
        IN  /\ c.rxTotal > 0
            /\ Len(c.wire) = 2
            /\ c.wire[1].ok /\ c.wire[2].ok
            /\ GetPacketSize(c.wire[1].data) = WelcomeSize

\* The dispatch step of session i: the task leaves the point where a whole
\* frame is in the buffer.
Dispatched(i) == clients[i].pc = "dispatch" /\ clients[i].pc' # "dispatch"

\* C9: dispatching a frame whose type has no case changes neither the
\* guildcard, the flag, the staged guildcard data and its size, nor the
\* server cipher, writes nothing, leaves the connection open and the
\* session listed, and the task goes on to read the next header.
C9_UnknownTypeChangesNothing ==
    [][\A i \in ConnIds :
          Dispatched(i) /\ ReadU16(clients[i].recvData, 3) \notin HandledTypes
          => /\ clients[i].guildcard' = clients[i].guildcard
             /\ clients[i].flag' = clients[i].flag
             /\ clients[i].gcData' = clients[i].gcData
             /\ clients[i].gcDataSize' = clients[i].gcDataSize
             /\ clients[i].serverCrypt' = clients[i].serverCrypt
             /\ clients[i].wire' = clients[i].wire
             /\ clients[i].err' = FALSE
             /\ clients[i].conn' = "open"
             /\ clients[i].pc' = "hdr"
             /\ i \in charConnections'
             /\ processUp']_vars

\* A frame whose type has no case was dispatched and the session reads on.
C9_UnknownTypeDispatched ==
    \E i \in ConnIds :
        LET c == clients[i]
        IN  /\ c.dispatched # << >>
            /\ ReadU16(c.dispatched[Len(c.dispatched)], 3) \notin HandledTypes
            /\ c.pc = "hdr" /\ c.conn = "open"
            /\ c.recvSize = 0

\* C10: a session whose task has ended, whatever ended it, has its
\* connection closed and is off the connection list; a session whose task
\* runs is on the list.
C10_EndedMeansClosedAndUnlisted ==
    \A i \in ConnIds :
        LET c == clients[i]
        IN  /\ c.pc = "done" => c.conn = "closed" /\ i \notin charConnections
            /\ c.pc \in {"hdr", "body", "dispatch"} => i \in charConnections

\* One session's task ended on a failing handler while another session's
\* task runs.
C10_OneEndedOneRunning ==
    \E i, j \in ConnIds :
        /\ clients[i].pc = "done" /\ clients[i].endCause = "handler"
        /\ clients[j].pc = "hdr" /\ j \in charConnections

(***************************************************************************)
(* Properties of the handlers.                                             *)
(***************************************************************************)
\* The type of the frame the session dispatched last.
LastType(c) == ReadU16(c.dispatched[Len(c.dispatched)], 3)

\* The step dispatched a frame of session i to a handler whose storage
\* access failed: the lookup or the insert of the options handler, the
\* query of the guildcard handler, the lookup of the preview handler.
StorageFailed(i) ==
    LET c == clients[i]
        e == clients[i].env'
        type == ReadU16(c.recvData, 3)
    IN  /\ Dispatched(i)
        /\ \/ /\ type = PacketTypes.OptionsRequest
              /\ \/ e.dbErr
                 \/ c.guildcard \notin DOMAIN db.player_options /\ e.insErr
           \/ type = PacketTypes.GuildcardReq /\ e.dbErr
           \/ type = PacketTypes.CharPreviewReq /\ e.char = "error"

\* C11: when the storage access of the options, character-preview or
\* guildcard handler fails, the session ends: nothing is written for that
\* frame, the connection is closed and the session is off the list; and no
\* frame is dispatched nor anything written on a session that has ended.
C11_StorageErrorEndsSession ==
    [][\A i \in ConnIds :
          /\ StorageFailed(i)
             => /\ clients[i].wire' = clients[i].wire
                /\ clients[i].txlog' = clients[i].txlog
                /\ Ended(clients[i]')
                /\ i \notin charConnections'
          /\ Ended(clients[i])
             => /\ clients[i].dispatched' = clients[i].dispatched
                /\ clients[i].wire' = clients[i].wire
                /\ Ended(clients[i]')]_vars

\* The insert of the default options failed: the session has ended on the
\* handler's error with only the welcome packet written, and a frame the
\* client sent after the request was never dispatched.
C11_InsertFailedSessionClosed ==
    LET c == clients[1]
    IN  /\ c.endCause = "handler" /\ c.env.insErr /\ ~c.env.dbErr
        /\ LastType(c) = PacketTypes.OptionsRequest
        /\ Ended(c) /\ 1 \notin charConnections
        /\ Len(c.wire) = 1
        /\ Len(c.sent) > Len(c.dispatched)

\* The record of the last reply of a session (trailing zeros dropped).
LastReply(c) == c.txlog[Len(c.txlog)].rec

\* C12: the dispatch of a Login frame writes exactly one Security reply.
\* When the credentials fail verification the reply carries an error code
\* other than None and the session ends, its connection closed; when they
\* pass, the reply carries the code None and the guildcard of the session,
\* and the session stays open and goes on reading.
C12_LoginAnsweredBySecurity ==
    [][\A i \in ConnIds :
          Dispatched(i) /\ ReadU16(clients[i].recvData, 3) = PacketTypes.Login
          => LET c == clients[i]
                 d == clients[i]'
                 reply == LastReply(d)
             IN  /\ Len(d.txlog) = Len(c.txlog) + 1
                 /\ Len(d.wire) = Len(c.wire) + 1
                 /\ ReadU16(reply, 3) = PacketTypes.Security
                 /\ d.env.auth = "bad"
                    => /\ ReadU32(reply, 9) # LE32(BBLoginError.None)
                       /\ Ended(d) /\ i \notin charConnections'
                 /\ d.env.auth = "ok"
                    => /\ ReadU32(reply, 9) = LE32(BBLoginError.None)
                       /\ d.guildcard = d.env.gc
                       /\ ReadU32(reply, 17) = LE32(d.guildcard)
                       /\ d.pc = "hdr" /\ d.conn = "open"
                       /\ i \in charConnections']_vars

\* A login passed verification: the session holds the guildcard, its only
\* reply is the Security packet with the code None and that guildcard, and
\* it reads on.
C12_LoginAccepted ==
    LET c == clients[1]
    IN  /\ Len(c.dispatched) = 1 /\ LastType(c) = PacketTypes.Login
        /\ c.guildcard \in Accounts
        /\ Len(c.txlog) = 1
        /\ ReadU16(LastReply(c), 3) = PacketTypes.Security
        /\ ReadU32(LastReply(c), 9) = LE32(BBLoginError.None)
        /\ ReadU32(LastReply(c), 17) = LE32(c.guildcard)
        /\ c.pc = "hdr" /\ c.conn = "open"

\* The record of a guildcard chunk reply for chunk (a u32 as four bytes)
\* with this payload, as txlog keeps it.
ChunkRecord(chunk, payload) ==
    TrimZeros(BBHeader(0, PacketTypes.GuildcardChunk, 0) \o LE32(0) \o chunk
              \o payload)

\* blob[k*0x6800 .. min((k+1)*0x6800, len)] of a blob held as runs.
ChunkOf(blob, k) ==
    SubSeq(Unpack(blob), k * MaxChunkSize + 1,
           Min((k + 1) * MaxChunkSize, RunsLen(blob)))

\* C13: the GuildcardReq handler sends the length of the blob it stages as
\* the Length of the guildcard header; from then on the dispatch of a
\* GuildcardChunkReq with Continue = 1 for a chunk k with k * 0x6800 below
\* that length writes exactly one chunk reply, whose Chunk field is k and
\* whose payload is blob[k*0x6800 .. min((k+1)*0x6800, len)] (so that the
\* payloads of chunks 0..N are consecutive pieces of the blob, and their
\* lengths add up to the Length of the header).
C13_ChunkIsItsPieceOfTheBlob ==
    [][\A i \in ConnIds :
          LET c == clients[i]
              d == clients[i]'
              frame == d.dispatched[Len(d.dispatched)]
              type == ReadU16(c.recvData, 3)
              k == SmallInt(ReadU32(frame, 13))
          IN  /\ Dispatched(i) /\ type = PacketTypes.GuildcardReq
                 /\ d.gcData # c.gcData
                 => /\ Len(d.txlog) = Len(c.txlog) + 1
                    /\ ReadU16(LastReply(d), 3) = PacketTypes.GuildcardHeader
                    /\ ReadU16(LastReply(d), 13) = RunsLen(d.gcData)
              /\ Dispatched(i) /\ type = PacketTypes.GuildcardChunkReq
                 /\ ReadU32(frame, 17) = LE32(1)
                 /\ c.gcData # << >>
                 /\ k >= 0 /\ k * MaxChunkSize < RunsLen(c.gcData)
                 => /\ Len(d.txlog) = Len(c.txlog) + 1
                    /\ Len(d.wire) = Len(c.wire) + 1
                    /\ LastReply(d) = ChunkRecord(LE32(k), ChunkOf(c.gcData, k))
                    /\ d.txlog[Len(d.txlog)].recLen
                          = 16 + Len(ChunkOf(c.gcData, k))
                    /\ d.gcData = c.gcData
                    /\ d.pc = "hdr"]_vars

\* With a full list of 104 guildcards staged, the last chunk (2) has been
\* asked for and answered with the last 1424 bytes of the blob.
C13_LastChunkSent ==
    LET c == clients[1]
    IN  /\ Len(c.dispatched) = 2
        /\ LastType(c) = PacketTypes.GuildcardChunkReq
        /\ ReadU32(c.dispatched[2], 13) = LE32(2)
        /\ c.gcData = GuildcardDataBytes(GuildcardRows(GuildcardDataLayout.entries))
        /\ Len(c.txlog) = 2
        /\ c.txlog[2].recLen = 16 + (RunsLen(c.gcData) - 2 * MaxChunkSize)
        /\ LastReply(c) = ChunkRecord(LE32(2), ChunkOf(c.gcData, 2))
        /\ c.pc = "hdr"

\* The last frame session c dispatched asks, with Continue = 1, for a chunk
\* past the end of what the session has staged (nothing, when no
\* GuildcardReq came first).
AskedPastTheEnd(c) ==
    /\ c.dispatched # << >>
    /\ LastType(c) = PacketTypes.GuildcardChunkReq
    /\ LET frame == c.dispatched[Len(c.dispatched)]
           k == SmallInt(ReadU32(frame, 13))
       IN  /\ ReadU32(frame, 17) = LE32(1)
           /\ ~(k >= 0 /\ k * MaxChunkSize < RunsLen(c.gcData))

\* C14: a GuildcardChunkReq with Continue = 1 for a chunk k past the end of
\* the staged blob (k * 0x6800 at or above its length, k any 32-bit value,
\* the blob possibly not staged) is answered with a chunk reply of
\* zero-length payload, or ends that session and no more: no bytes of the
\* blob are sent and the process stays up.
C14_PastTheEndIsEmptyOrEndsSession ==
    \A i \in ConnIds :
        LET c == clients[i]
        IN  AskedPastTheEnd(c)
            => /\ processUp
               /\ \/ Ended(c)
                  \/ /\ c.txlog # << >>
                     /\ ReadU16(LastReply(c), 3) = PacketTypes.GuildcardChunk
                     /\ c.txlog[Len(c.txlog)].recLen = 16

\* With 104 guildcards staged, chunk 3 (offset 79872, past the 54672 bytes
\* of the blob) was asked for and answered with the 26624 bytes of the
\* blob at offset 14336 = 79872 mod 65536; the session reads on.
C14_WrappedOffsetServed ==
    LET c == clients[1]
    IN  /\ AskedPastTheEnd(c)
        /\ ReadU32(c.dispatched[Len(c.dispatched)], 13) = LE32(3)
        /\ c.gcData = GuildcardDataBytes(GuildcardRows(GuildcardDataLayout.entries))
        /\ c.txlog[Len(c.txlog)].recLen = 16 + MaxChunkSize
        /\ LastReply(c)
              = ChunkRecord(LE32(3),
                            SubSeq(Unpack(c.gcData),
                                   ((3 * MaxChunkSize) % UInt16) + 1,
                                   ((3 * MaxChunkSize) % UInt16) + MaxChunkSize))
        /\ c.pc = "hdr" /\ processUp

\* How many of the elements of a sequence of frames or records have type t.
CountType(seq, t) == Cardinality({ k \in DOMAIN seq : ReadU16(seq[k], 3) = t })

\* The records of the replies of a session.
Replies(c) == [k \in DOMAIN c.txlog |-> c.txlog[k].rec]

\* The last frame session c dispatched is a GuildcardReq whose query and
\* whose Scans succeeded.
GuildcardRowsRead(c) ==
    /\ c.dispatched # << >>
    /\ LastType(c) = PacketTypes.GuildcardReq
    /\ ~c.env.dbErr /\ ~c.env.scanErr

\* C15: for every number of guildcard rows from 0 to 140 the GuildcardReq
\* handler completes: the process stays up and the session open, the blob
\* staged holds the first rows, 104 of them at most, and one guildcard
\* header has been sent for each GuildcardReq.
C15_EveryRowCountCompletes ==
    \A i \in ConnIds :
        LET c == clients[i]
        IN  GuildcardRowsRead(c)
            => /\ processUp
               /\ c.endCause = "" /\ c.conn = "open"
               /\ c.gcData = GuildcardDataBytes(GuildcardRows(
                                 Min(c.env.rows, GuildcardDataLayout.entries)))
               /\ ReadU16(LastReply(c), 3) = PacketTypes.GuildcardHeader
               /\ CountType(Replies(c), PacketTypes.GuildcardHeader)
                     = CountType(c.dispatched, PacketTypes.GuildcardReq)

\* Storage returned 105 rows, all scanned: the handler panicked on
\* Entries[104], nothing was staged or sent, and the process is down.
C15_Row105Panics ==
    LET c == clients[1]
    IN  /\ GuildcardRowsRead(c)
        /\ c.env.rows = GuildcardDataLayout.entries + 1
        /\ c.endCause = "panic" /\ ~processUp
        /\ c.gcData = << >> /\ c.txlog = << >>

(***************************************************************************)
(* Properties of the parameter cache.                                      *)
(***************************************************************************)
\* The chunks of the cache in the order of their indices, when the indices
\* are 0 .. n-1.
ChunkList == [k \in 1..Cardinality(DOMAIN params.chunks) |-> params.chunks[k - 1]]

\* C16: once loadParameterFiles has run, whatever the sizes of the files
\* (their total zero or an exact multiple of the chunk size included), the
\* indices of the chunk map are 0 .. n-1, no chunk is empty, every chunk
\* but the last holds exactly 0x6800 bytes and the last at most that, the
\* lengths of the chunks add up to the sizes of the files, and the chunks
\* in index order are the files' bytes in declaration order.
C16_ChunksPartitionTheFiles ==
    acceptor.pc # "load"
    => LET n == Cardinality(DOMAIN params.chunks)
           files == ReadFiles(db.files)
       IN  /\ DOMAIN params.chunks = 0..(n - 1)
           /\ \A k \in DOMAIN params.chunks :
                 /\ Len(params.chunks[k]) > 0
                 /\ Len(params.chunks[k]) <= MaxChunkSize
                 /\ k < n - 1 => Len(params.chunks[k]) = MaxChunkSize
           /\ SumLen(ChunkList, n) = SumLen(files, Len(files))
           /\ Concat(ChunkList) = Concat(files)

\* Files of 0x6800 bytes and of one byte were loaded: chunk 0 is full and
\* chunk 1 holds the one byte left.
C16_FullChunkAndOneByte ==
    /\ acceptor.pc # "load"
    /\ db.files[1] = MaxChunkSize /\ db.files[2] = 1
    /\ DOMAIN params.chunks = {0, 1}
    /\ Len(params.chunks[0]) = MaxChunkSize
    /\ params.chunks[1] = ParamFileData(2, 1)

\* Entry i (from 1) of the header blob: 76 bytes.
HeaderEntry(i) == SubSeq(params.header, 76 * (i - 1) + 1, 76 * i)

\* C17: the header blob holds one 76-byte ParameterEntry per parameter
\* file, in declaration order: entry i carries the name of file i, its
\* Size is the length of file i and its Offset the sum of the Sizes of the
\* entries before it.
C17_EntriesInOrderWithRunningOffsets ==
    acceptor.pc # "load"
    => /\ Len(params.header) = 76 * Len(paramFiles)
       /\ \A i \in 1..Len(paramFiles) :
             /\ ReadU32(HeaderEntry(i), 1) = LE32(db.files[i])
             /\ ReadU32(HeaderEntry(i), 9)
                   = LE32(SumLen(ReadFiles(db.files), i - 1))
             /\ SubSeq(HeaderEntry(i), 13, 76) = PadTo(paramFiles[i], 64)

\* Three files of 2, 1 and 2 bytes were loaded: the third entry has the
\* Size 2 and the Offset 3.
C17_ThirdEntryAtOffset3 ==
    /\ acceptor.pc # "load"
    /\ SubSeq(db.files, 1, 3) = << 2, 1, 2 >>
    /\ ReadU32(HeaderEntry(3), 1) = LE32(2)
    /\ ReadU32(HeaderEntry(3), 9) = LE32(3)

(***************************************************************************)
(* Properties of the parameter, preview and options handlers.              *)
(***************************************************************************)
\* The cached chunk with the index flags (a u32 as four bytes), or no
\* bytes when the cache holds no such index.
CachedChunk(flags) ==
    IF SmallInt(flags) \in DOMAIN params.chunks
    THEN params.chunks[SmallInt(flags)] ELSE << >>

\* C18: the dispatch of a ParameterChunkReq writes exactly one parameter
\* chunk reply, whose Chunk field is the Flags of the request and whose
\* payload is the cached chunk with that index, or empty when Flags is not
\* an index of the cache; either way the session goes on reading and
\* neither its fields nor storage nor the cache change.
C18_ParameterChunkByFlags ==
    [][\A i \in ConnIds :
          Dispatched(i)
          /\ ReadU16(clients[i].recvData, 3) = PacketTypes.ParameterChunkReq
          => LET c == clients[i]
                 d == clients[i]'
                 flags == ReadU32(c.recvData, 5)
             IN  /\ Len(d.txlog) = Len(c.txlog) + 1
                 /\ Len(d.wire) = Len(c.wire) + 1
                 /\ LastReply(d)
                       = TrimZeros(BBHeader(0, PacketTypes.ParameterChunk, 0)
                                   \o flags \o CachedChunk(flags))
                 /\ d.txlog[Len(d.txlog)].recLen = 12 + Len(CachedChunk(flags))
                 /\ d.pc = "hdr" /\ d.conn = "open" /\ i \in charConnections'
                 /\ d.guildcard = c.guildcard /\ d.flag = c.flag
                 /\ d.gcData = c.gcData /\ d.gcDataSize = c.gcDataSize
                 /\ params' = params /\ db' = db /\ processUp']_vars

\* Chunk 1, which the cache does not hold, was asked for and answered with
\* a parameter chunk reply of empty payload; the session reads on.
C18_MissingChunkAnsweredEmpty ==
    LET c == clients[1]
    IN  /\ c.dispatched = << BBHeader(8, PacketTypes.ParameterChunkReq, 1) >>
        /\ 1 \notin DOMAIN params.chunks
        /\ Len(c.txlog) = 1
        /\ LastReply(c) = TrimZeros(BBHeader(0, PacketTypes.ParameterChunk, 0)
                                    \o LE32(1))
        /\ c.txlog[1].recLen = 12
        /\ c.pc = "hdr" /\ c.conn = "open"

\* C19: a CharPreviewReq whose lookup succeeds is answered by exactly one
\* reply: the character preview (0xE5) when the slot holds a character,
\* the acknowledgement (0xE4) carrying the requested slot when it is empty;
\* so a session has one such reply for each preview request dispatched.
C19_PreviewAnsweredOnce ==
    \A i \in ConnIds :
        LET c == clients[i]
        IN  /\ c.dispatched # << >>
            /\ LastType(c) = PacketTypes.CharPreviewReq
            /\ c.env.char # "error"
            => /\ processUp /\ c.endCause = ""
               /\ c.txlog # << >>
               /\ c.env.char = "exists"
                  => ReadU16(LastReply(c), 3) = PacketTypes.CharPreview
               /\ c.env.char = "none"
                  => /\ ReadU16(LastReply(c), 3) = PacketTypes.CharAck
                     /\ ReadU32(LastReply(c), 9)
                           = ReadU32(c.dispatched[Len(c.dispatched)], 9)
               /\ CountType(Replies(c), PacketTypes.CharPreview)
                   + CountType(Replies(c), PacketTypes.CharAck)
                     = CountType(c.dispatched, PacketTypes.CharPreviewReq)

\* A preview request for slot 1 was dispatched: the handler panicked while
\* decoding it, nothing was written and the process is down.
C19_PreviewRequestPanics ==
    LET c == clients[1]
    IN  /\ c.dispatched
             = << BBHeader(16, PacketTypes.CharPreviewReq, 0) \o LE32(1) \o LE32(0) >>
        /\ c.env.char = "none"
        /\ c.endCause = "panic" /\ ~processUp
        /\ c.txlog = << >>

\* The record of an Options reply for this guildcard and key configuration.
OptionsRecord(guildcard, keyConfig) ==
    TrimZeros(BBHeader(0, PacketTypes.Options, 0) \o LE32(guildcard)
              \o keyConfig \o << 255, 255, 255, 255, 255, 255, 255, 255 >>)

\* C20: the dispatch of an OptionsRequest whose lookup and insert succeed
\* writes exactly one Options reply with a key configuration of 420 bytes:
\* the stored one when storage has a row for the session's guildcard, and
\* then storage does not change; else the default one, whose row has been
\* inserted (a second request then finds it).  When the lookup or the
\* insert fails nothing is written and storage does not change.
C20_OptionsStoredOrDefault ==
    [][\A i \in ConnIds :
          Dispatched(i)
          /\ ReadU16(clients[i].recvData, 3) = PacketTypes.OptionsRequest
          => LET c == clients[i]
                 d == clients[i]'
                 g == c.guildcard
                 rows == db.player_options
             IN  IF d.env.dbErr \/ (g \notin DOMAIN rows /\ d.env.insErr)
                 THEN /\ d.txlog = c.txlog /\ d.wire = c.wire
                      /\ db' = db
                 ELSE /\ Len(d.txlog) = Len(c.txlog) + 1
                      /\ Len(d.wire) = Len(c.wire) + 1
                      /\ d.pc = "hdr"
                      /\ IF g \in DOMAIN rows
                         THEN /\ Len(rows[g]) = 420
                              /\ LastReply(d) = OptionsRecord(g, rows[g])
                              /\ db' = db
                         ELSE /\ Len(BaseKeyConfig) = 420
                              /\ LastReply(d) = OptionsRecord(g, BaseKeyConfig)
                              /\ DOMAIN db'.player_options = DOMAIN rows \cup {g}
                              /\ db'.player_options[g] = BaseKeyConfig
                              /\ \A h \in DOMAIN rows :
                                    db'.player_options[h] = rows[h]]_vars

\* Two options requests of a session without a stored row: both were
\* answered with the default configuration and storage holds the one row
\* the first of them inserted.
C20_SecondRequestFindsTheRow ==
    LET c == clients[1]
    IN  /\ Len(c.dispatched) = 2
        /\ \A k \in 1..2 : ReadU16(c.dispatched[k], 3) = PacketTypes.OptionsRequest
        /\ Len(c.txlog) = 2
        /\ \A k \in 1..2 :
              c.txlog[k].rec = OptionsRecord(c.guildcard, BaseKeyConfig)
        /\ DOMAIN db.player_options = {c.guildcard}
        /\ db.player_options[c.guildcard] = BaseKeyConfig
        /\ c.pc = "hdr"

(***************************************************************************)
(* Properties of the order of a session's steps and of sessions running    *)
(* side by side.                                                           *)
(***************************************************************************)
\* The writes k+1.. of session record d are, in order, the records k.. of
\* its txlog, each encrypted at the position the server cipher was at.
WritesFollowLog(d, k) ==
    \A j \in k..Len(d.txlog) :
        /\ j + 1 \in DOMAIN d.wire
        /\ d.wire[j + 1].data
              = EncryptBytes(d.serverCrypt.key, EncryptedBefore(d.txlog, j - 1),
                             Slice(d.txlog[j].frame, 1, d.txlog[j].frameLen),
                             d.txlog[j].frameLen)

\* C21: within a session the writes handed to the socket only grow at the
\* end; a step of the header loop or of the body loop (the steps that take
\* the next frame from the connection and decrypt its header) writes
\* nothing and starts with every record generated so far handed to the
\* socket; and the step that dispatches a frame hands to the socket, after
\* the writes of the earlier frames and in the order generated, exactly the
\* records its handler generated.
C21_RepliesWrittenBeforeNextFrame ==
    [][\A i \in ConnIds :
          LET c == clients[i]
              d == clients[i]'
          IN  /\ Len(d.wire) >= Len(c.wire)
              /\ SubSeq(d.wire, 1, Len(c.wire)) = c.wire
              /\ Len(d.txlog) >= Len(c.txlog)
              /\ SubSeq(d.txlog, 1, Len(c.txlog)) = c.txlog
              /\ c.pc \in {"hdr", "body"}
                    => /\ d.wire = c.wire /\ d.txlog = c.txlog
                       /\ Len(c.wire) = 1 + Len(c.txlog)
              /\ d.dispatched # c.dispatched
                    => /\ c.pc = "dispatch"
                       /\ Len(c.wire) = 1 + Len(c.txlog)
              /\ c.pc = "dispatch"
                    => /\ d.dispatched # c.dispatched => d.pc # "dispatch"
                       /\ Len(d.wire) - Len(c.wire) = Len(d.txlog) - Len(c.txlog)
                       /\ WritesFollowLog(d, Len(c.txlog) + 1)]_vars

\* A session dispatched two frames and answered both: the reply to the
\* first is its second write and the reply to the second is its third.
C21_TwoFramesTwoReplies ==
    \E i \in ConnIds :
        LET c == clients[i]
        IN  /\ Len(c.dispatched) = 2
            /\ Len(c.txlog) = 2 /\ Len(c.wire) = 3
            /\ ReadU16(c.txlog[1].rec, 3) = PacketTypes.ChecksumAck
            /\ ReadU16(c.txlog[2].rec, 3) = PacketTypes.Security
            /\ c.pc = "hdr"

\* The session that got frame as its input, run on its own: the task reads
\* the frame, dispatches it and, when the handler fails, runs its deferred
\* function.
RunAlone(seeds, frame) ==
    LET c0 == SessionWithInput(seeds, frame)
        c1 == headerRead(c0, [n |-> Len(frame), err |-> "nil"])
        c2 == dispatchFrame(c1, [player_options |-> << >>],
                            loadParameterFiles(SmallFiles), NoEnv).c
    IN  IF c2.pc = "exit" THEN Deferred(c2, {}, 0).c ELSE c2

\* No task can take a step: each one has ended or waits for input the
\* client has not sent, or the process is down.
Quiescent ==
    \/ ~processUp
    \/ \A i \in ConnIds :
          \/ clients[i].pc \in {"none", "done"}
          \/ clients[i].pc \in {"hdr", "body"} /\ ReadOutcomes(clients[i]) = {}

\* The fields of a session the code holds or the peer sees.
SessionState(c) ==
    [conn |-> c.conn, wire |-> c.wire, txlog |-> c.txlog,
     recvData |-> c.recvData, recvSize |-> c.recvSize,
     packetSize |-> c.packetSize, clientCrypt |-> c.clientCrypt,
     serverCrypt |-> c.serverCrypt, flag |-> c.flag, gcData |-> c.gcData,
     gcDataSize |-> c.gcDataSize, dispatched |-> c.dispatched, pc |-> c.pc]

\* A task step of session i leaves every other session as it was.
TaskStepsTouchOnlyTheirSession ==
    [][\A i, j \in ConnIds :
          i # j /\ clients[i].pc \in {"hdr", "body", "dispatch"}
          /\ clients[i]' # clients[i]
          => clients[j]' = clients[j]]_vars

\* C22: whatever the interleaving of the tasks of the sessions, once no
\* task can take a step every session has written the replies, and is in
\* the state, that it reaches when it runs on its own with the same input.
C22_SameOutcomeAsAlone ==
    Quiescent
    => \A i \in ConnIds :
          \E seeds \in KeySeeds :
             SessionState(clients[i])
                = SessionState(RunAlone(seeds, clients[i].sent[1]))

\* A session whose client sent a checksum request has read all of it and
\* will never answer it: the handler of another session's frame panicked
\* and the process is down.
C22_RequestNeverAnswered ==
    \E i, j \in ConnIds :
        /\ i # j
        /\ ~processUp
        /\ clients[j].endCause = "panic"
        /\ clients[i].sent = << BBHeader(8, PacketTypes.Checksum, 0) >>
        /\ clients[i].pc = "dispatch"
        /\ Len(clients[i].wire) = 1

\* The accept loop can take its step: it waits in AcceptTCP, or the socket
\* of the connection it accepted takes the welcome packet.
AcceptLoopRuns ==
    /\ processUp
    /\ acceptor.pc = "newclient" => ~clients[acceptor.next].sndBlock

\* The handler of the frame session i holds returns: it writes nothing, or
\* the socket takes what it writes.
HandlerReturns(i) ==
    LET c == clients[i]
    IN  /\ processUp
        /\ c.pc = "dispatch"
        /\ \E e \in EnvFor(ReadU16(c.recvData, 3)) :
              c.sndBlock => dispatchFrame(c, db, params, e).c.wire = c.wire

\* The task of session i can take a step: it holds a frame whose handler
\* returns, or its read returns.
TaskRuns(i) ==
    \/ HandlerReturns(i)
    \/ /\ processUp
       /\ clients[i].pc \in {"hdr", "body"}
       /\ ReadOutcomes(clients[i]) # {}

\* A write to connection i is blocked: the acceptor is inside the write of
\* its welcome packet, or its task holds a frame whose reply the socket
\* does not take.
WriteBlocked(i) ==
    /\ clients[i].sndBlock
    /\ \/ acceptor.pc = "newclient" /\ acceptor.next = i
       \/ clients[i].pc = "dispatch" /\ ~HandlerReturns(i)

\* C23: while a write to a connection is blocked, the accept loop is not
\* held (it waits in AcceptTCP or can finish the NewClient of the
\* connection it accepted), and every other session whose task holds a
\* complete frame it can answer, or has bytes to read, can take its step.
C23_BlockedWriteDelaysOnlyItsSession ==
    \A i \in ConnIds :
        WriteBlocked(i)
        => /\ AcceptLoopRuns
           /\ \A j \in ConnIds \ {i} :
                 /\ clients[j].pc = "dispatch" /\ ~clients[j].sndBlock
                       => TaskRuns(j)
                 /\ clients[j].pc \in {"hdr", "body"}
                    /\ clients[j].inflight # << >>
                       => TaskRuns(j)

\* The write of the welcome packet of the second connection is blocked and
\* the accept loop waits inside it, while the first session has answered a
\* request and reads on.
C23_AcceptLoopHeldByWelcome ==
    /\ acceptor = [pc |-> "newclient", next |-> 2]
    /\ clients[2].sndBlock /\ clients[2].wire = << >>
    /\ ~AcceptLoopRuns
    /\ Len(clients[1].wire) = 2 /\ clients[1].pc = "hdr"

\* The bytes the client of session record c has put on the connection: its
\* frames, encrypted one after the other with its side of the client cipher.
Stream(c) ==
    LET plain == Concat(c.sent)
    IN  EncryptBytes(c.peerTx.key, 0, plain, Len(plain))

C25_BufferClearedAfterFrame ==
    [][\A i \in ConnIds :
          LET c == clients[i]
              d == clients[i]'
          IN  /\ Dispatched(i) /\ ~d.err /\ ~d.panicked
                    => /\ d.pc = "hdr"
                       /\ d.recvSize = 0 /\ d.packetSize = 0
                       /\ \A p \in 1..Max(BBHeaderSize, c.packetSize) :
                             ByteAt(d.recvData, p) = 0
              /\ \A p \in (d.recvSize + 1)..Len(d.recvData) :
                    ByteAt(d.recvData, p) = 0]_vars

\* A frame whose body is not zero was handled, and the frame after it, a
\* header of zero flags, was dispatched as the client sent it.
C25_NextFrameSeesCleanBuffer ==
    \E i \in ConnIds :
        LET c == clients[i]
        IN  /\ Len(c.dispatched) = 2
            /\ c.dispatched = c.sent
            /\ Len(c.dispatched[1]) = 2 * BBHeaderSize
            /\ ByteAt(c.dispatched[1], BBHeaderSize + 1) # 0
            /\ Len(c.dispatched[2]) = BBHeaderSize
            /\ c.pc = "hdr" /\ c.recvData = << >>

\* C26: whenever a session's task waits for the body of a frame, every
\* outcome its next Read can have consumes input or ends the wait with an
\* error: the loop has no turn that leaves it where it was.
C26_BodyLoopConsumesOrEnds ==
    \A i \in ConnIds :
        clients[i].pc = "body"
        => \A o \in ReadOutcomes(clients[i]) : o.n > 0 \/ o.err # "nil"

\* The header said 1032 bytes, the client sent them all and closed its
\* end, and the task waits for the body with a full buffer: its Read gets
\* an empty slice and returns 0 bytes and no error, turn after turn.
C26_SpinsOnFullBuffer ==
    LET c == clients[1]
    IN  /\ c.pc = "body"
        /\ c.packetSize = RecvBufLen + BBHeaderSize
        /\ c.recvSize = RecvBufLen
        /\ c.peer = "closed"
        /\ Len(c.sent[1]) = c.packetSize
        /\ ReadOutcomes(c) = { [n |-> 0, err |-> "nil"] }
        /\ bodyRead(c, [n |-> 0, err |-> "nil"]) = c

\* C27: a connection whose welcome packet could not be written, once the
\* accept loop has gone on, is not on the connection list, has no task,
\* and is closed; every other accepted connection the acceptor has done
\* with has a task that runs, on the list, or is closed.
C27_FailedWelcomeClosesConnection ==
    \A i \in ConnIds :
        LET c == clients[i]
        IN  /\ c.wire # << >> /\ ~c.wire[1].ok
                  => /\ i \notin charConnections
                     /\ c.pc = "none"
                     /\ c.conn = "closed"
            /\ i < acceptor.next /\ c.conn = "open"
                  => i \in charConnections /\ c.pc \in {"hdr", "body", "dispatch"}

\* The welcome packet of the first connection could not be written; the
\* accept loop went on and has accepted the second connection, and the
\* first is still open, off the list and without a task.
C27_ConnectionLeftOpen ==
    /\ acceptor.next = 2 /\ acceptor.pc = "newclient"
    /\ clients[1].wire # << >> /\ ~clients[1].wire[1].ok
    /\ clients[1].ret # 0
    /\ clients[1].conn = "open"
    /\ clients[1].pc = "none"
    /\ 1 \notin charConnections
    /\ processUp

\* The reply to a parameter request when the cache is cache: the header
\* blob for a header request, the chunk with the index Flags, or no bytes
\* when there is none, for a chunk request.
ParameterReply(cache, request) ==
    IF ReadU16(request, 3) = PacketTypes.ParameterHeaderReq
    THEN TrimZeros(BBHeader(0, PacketTypes.ParameterHeader, Len(paramFiles))
                   \o cache.header)
    ELSE LET flags == ReadU32(request, 5)
         IN  TrimZeros(BBHeader(0, PacketTypes.ParameterChunk, 0) \o flags
                       \o (IF SmallInt(flags) \in DOMAIN cache.chunks
                           THEN cache.chunks[SmallInt(flags)] ELSE << >>))

\* C28: until StartCharacter has loaded the parameter files nothing is
\* accepted; from then on the cache is what the load built from the files,
\* whatever the sessions have done, and every reply of every session to a
\* parameter request carries the contents of that one cache.
C28_CacheBuiltOnceAndShared ==
    LET built == loadParameterFiles(ReadFiles(db.files))
    IN  /\ acceptor.pc = "load"
              => /\ acceptor.next = 1
                 /\ \A i \in ConnIds : clients[i] = NoClient
        /\ acceptor.pc # "load" => params = built
        /\ \A i \in ConnIds :
              \A k \in DOMAIN clients[i].txlog :
                 /\ k \in DOMAIN clients[i].dispatched
                 /\ clients[i].txlog[k].rec
                       = ParameterReply(built, clients[i].dispatched[k])

\* Two sessions asked for chunk 0 and both got the same bytes, which are
\* not empty: the chunk the load cut from the files.
C28_TwoSessionsSameChunk ==
    /\ \A i \in 1..2 :
          /\ clients[i].dispatched = << BBHeader(8, PacketTypes.ParameterChunkReq, 0) >>
          /\ Len(clients[i].txlog) = 1
          /\ clients[i].txlog[1].recLen > 12
    /\ clients[1].txlog[1].rec = clients[2].txlog[1].rec
    /\ 0 \in DOMAIN params.chunks


(***************************************************************************)
(* Properties of the byte utilities.                                       *)
(***************************************************************************)
\* StripPadding has returned from a call on the bytes b with the result r.
Stripped(b, r) ==
    /\ util.fn = "StripPadding"
    /\ util.pc = "done"
    /\ util.arg = b
    /\ util.result = r

\* An argument that holds a non-zero byte comes back without the zeros
\* that follow its last non-zero byte, and with nothing else removed.
StripPaddingOfContent ==
    util.fn = "StripPadding" /\ util.pc = "done"
    /\ (\E i \in 1..Len(util.arg) : util.arg[i] # 0)
    => util.result = TrimZeros(util.arg)

\* C29: StripPadding(b) is the prefix of b left when all trailing zero
\* bytes are removed: it is a prefix of b, only zero bytes follow it in b,
\* and it is empty or ends in a non-zero byte, so that an all-zero b gives
\* the empty sequence; for content c that does not end in zero,
\* StripPadding of c followed by n zero bytes is c, for every n >= 0.
C29_StripsAllTrailingZeros ==
    util.fn = "StripPadding" /\ util.pc = "done" =>
        LET b == util.arg
            r == util.result
        IN  /\ Len(r) <= Len(b)
            /\ r = SubSeq(b, 1, Len(r))
            /\ \A i \in (Len(r) + 1)..Len(b) : b[i] = 0
            /\ r = << >> \/ r[Len(r)] # 0
            /\ \A n \in 0..Len(b) :
                  LET c == SubSeq(b, 1, Len(b) - n)
                  IN  /\ b = c \o Zeros(n)
                      /\ c = << >> \/ c[Len(c)] # 0
                      => r = c

\* StripPadding has returned an argument of two zero bytes as it was.
C29_AllZeroInputReturnedWhole ==
    Stripped(<< 0, 0 >>, << 0, 0 >>)

\* The bytes Utf8To16 works on: its argument, with a zero byte appended
\* when the argument's length is odd.
EvenedArg ==
    IF Len(util.arg) % 2 # 0 THEN Append(util.arg, 0) ELSE util.arg

\* Utf8To16 returns one value for each pair of bytes, an odd last byte
\* paired with zero, and each value is the first byte of its pair.
Utf8To16KeepsLowBytes ==
    util.fn = "Utf8To16" /\ util.pc = "done" =>
        /\ Len(util.result) = (Len(util.arg) + 1) \div 2
        /\ \A i \in 1..Len(util.result) :
              util.result[i] = EvenedArg[2 * i - 1]

\* C30: Utf8To16 reads consecutive byte pairs as little-endian 16-bit
\* values: element i of the result is src[2i] + 256 * src[2i+1], an
\* odd-length src counting as src with one zero byte appended, so that
\* Utf8To16(ExpandUtf16(x)) is x for every sequence x of 16-bit values.
C30_PairsReadLittleEndian ==
    util.fn = "Utf8To16" /\ util.pc = "done" =>
        /\ Len(util.result) = Len(EvenedArg) \div 2
        /\ \A i \in 1..Len(util.result) :
              util.result[i] = EvenedArg[2 * i - 1] + 256 * EvenedArg[2 * i]
        /\ util.chained => util.result = util.units

\* The bytes 0x34, 0x12 that ExpandUtf16 made of 0x1234 have come back
\* from Utf8To16 as 0x34.
C30_HighByteLost ==
    /\ util.fn = "Utf8To16"
    /\ util.pc = "done"
    /\ util.chained
    /\ util.units = << 4660 >>
    /\ util.arg = << 52, 18 >>
    /\ util.result = << 52 >>

=============================================================================
